---- MODULE Spec2Model ----
(***************************************************************************)
(* Model of the ice-maker ingestion-to-promotion pipeline:                 *)
(* fingerprinting (pipeline/fingerprint.py), the runner                    *)
(* (pipeline/runner.py), the geocoding verifier (pipeline/geocoder.py),    *)
(* the deduplicator (pipeline/matcher.py), the three-phase promoter        *)
(* (pipeline/promoter.py), the curation operations (pipeline/demoter.py)   *)
(* and the ice-time sync (pipeline/ice_time_sync.py).                      *)
(*                                                                         *)
(* Text is kept as strings; the text functions work character by           *)
(* character as the Python code does.  SQL NULL / Python None is NULL.     *)
(***************************************************************************)
EXTENDS Integers, Sequences, FiniteSets, TLC

NULL == "<null>"

\* ------------------------------------------------------------------------
\* Text primitives (Python str methods and the regular expressions used)
\* ------------------------------------------------------------------------
UpperChars == "ABCDEFGHIJKLMNOPQRSTUVWXYZ"
LowerChars == "abcdefghijklmnopqrstuvwxyz"
DigitChars == "0123456789"

CharAt(s, i) == SubSeq(s, i, i)

IndexIn(c, alphabet) ==
    IF \E i \in 1..Len(alphabet) : CharAt(alphabet, i) = c
    THEN CHOOSE i \in 1..Len(alphabet) : CharAt(alphabet, i) = c
    ELSE 0

IsUpperCh(c) == IndexIn(c, UpperChars) > 0
IsLowerCh(c) == IndexIn(c, LowerChars) > 0
IsDigitCh(c) == IndexIn(c, DigitChars) > 0
IsSpaceCh(c) == c = " "

LowerCh(c) == IF IsUpperCh(c) THEN CharAt(LowerChars, IndexIn(c, UpperChars)) ELSE c
UpperCh(c) == IF IsLowerCh(c) THEN CharAt(UpperChars, IndexIn(c, LowerChars)) ELSE c

RECURSIVE MapLower(_)
MapLower(s) == IF s = "" THEN "" ELSE LowerCh(CharAt(s, 1)) \o MapLower(SubSeq(s, 2, Len(s)))

RECURSIVE MapUpper(_)
MapUpper(s) == IF s = "" THEN "" ELSE UpperCh(CharAt(s, 1)) \o MapUpper(SubSeq(s, 2, Len(s)))

RECURSIVE LStrip(_)
LStrip(s) == IF s # "" /\ IsSpaceCh(CharAt(s, 1)) THEN LStrip(SubSeq(s, 2, Len(s))) ELSE s

RECURSIVE RStrip(_)
RStrip(s) == IF s # "" /\ IsSpaceCh(CharAt(s, Len(s))) THEN RStrip(SubSeq(s, 1, Len(s) - 1)) ELSE s

Strip(s) == RStrip(LStrip(s))

\* str.title(): a cased character is upper-cased when the previous character
\* is not cased and lower-cased otherwise.
RECURSIVE TitleFrom(_, _)
TitleFrom(s, prevCased) ==
    IF s = "" THEN ""
    ELSE LET c == CharAt(s, 1)
             cased == IsUpperCh(c) \/ IsLowerCh(c)
         IN (IF prevCased THEN LowerCh(c) ELSE UpperCh(c))
            \o TitleFrom(SubSeq(s, 2, Len(s)), cased)

Title(s) == TitleFrom(s, FALSE)

\* re.sub(r'[^a-z0-9 ]', '', text)
RECURSIVE KeepLowerAlnumSpace(_)
KeepLowerAlnumSpace(s) ==
    IF s = "" THEN ""
    ELSE LET c == CharAt(s, 1)
         IN (IF IsLowerCh(c) \/ IsDigitCh(c) \/ IsSpaceCh(c) THEN c ELSE "")
            \o KeepLowerAlnumSpace(SubSeq(s, 2, Len(s)))

\* re.sub(r'[^\w\s]', '', text)
RECURSIVE KeepWordSpace(_)
KeepWordSpace(s) ==
    IF s = "" THEN ""
    ELSE LET c == CharAt(s, 1)
         IN (IF IsLowerCh(c) \/ IsUpperCh(c) \/ IsDigitCh(c) \/ c = "_" \/ IsSpaceCh(c)
             THEN c ELSE "")
            \o KeepWordSpace(SubSeq(s, 2, Len(s)))

\* re.sub(r'\s+', ' ', text)
RECURSIVE CollapseSpaces(_)
CollapseSpaces(s) ==
    IF Len(s) < 2 THEN s
    ELSE IF IsSpaceCh(CharAt(s, 1)) /\ IsSpaceCh(CharAt(s, 2))
         THEN CollapseSpaces(SubSeq(s, 2, Len(s)))
         ELSE CharAt(s, 1) \o CollapseSpaces(SubSeq(s, 2, Len(s)))

\* str.split(): the whitespace-delimited words of s
RECURSIVE SplitWords(_)
SplitWords(s) ==
    LET t == LStrip(s)
    IN IF t = "" THEN << >>
       ELSE LET n == IF \E i \in 1..Len(t) : IsSpaceCh(CharAt(t, i))
                     THEN (CHOOSE i \in 1..Len(t) :
                              /\ IsSpaceCh(CharAt(t, i))
                              /\ \A j \in 1..(i - 1) : ~IsSpaceCh(CharAt(t, j))) - 1
                     ELSE Len(t)
            IN <<SubSeq(t, 1, n)>> \o SplitWords(SubSeq(t, n + 1, Len(t)))

\* sep.join(parts)
RECURSIVE Join(_, _)
Join(parts, sep) ==
    IF parts = << >> THEN ""
    ELSE IF Len(parts) = 1 THEN parts[1]
    ELSE parts[1] \o sep \o Join(Tail(parts), sep)

\* str.split(sep) for a one-character separator
RECURSIVE SplitOn(_, _)
SplitOn(s, sep) ==
    IF \E i \in 1..Len(s) : CharAt(s, i) = sep
    THEN LET n == CHOOSE i \in 1..Len(s) :
                     /\ CharAt(s, i) = sep
                     /\ \A j \in 1..(i - 1) : CharAt(s, j) # sep
         IN <<SubSeq(s, 1, n - 1)>> \o SplitOn(SubSeq(s, n + 1, Len(s)), sep)
    ELSE <<s>>

\* ------------------------------------------------------------------------
\* difflib.SequenceMatcher(None, a, b).ratio()  =  2*M / T, kept as the
\* pair <<2*M, T>>; M is the size of the matching blocks found by the
\* longest-match recursion (leftmost longest block first).
\* ------------------------------------------------------------------------
LongestMatch(a, b) ==
    LET blocks == {<<i, j, k>> \in (1..Len(a)) \X (1..Len(b)) \X (1..Len(a)) :
                      /\ i + k - 1 <= Len(a)
                      /\ j + k - 1 <= Len(b)
                      /\ SubSeq(a, i, i + k - 1) = SubSeq(b, j, j + k - 1)}
    IN IF blocks = {} THEN <<0, 0, 0>>
       ELSE CHOOSE m \in blocks :
              \A o \in blocks :
                 \/ m[3] > o[3]
                 \/ (m[3] = o[3] /\ m[1] < o[1])
                 \/ (m[3] = o[3] /\ m[1] = o[1] /\ m[2] <= o[2])

RECURSIVE MatchingChars(_, _)
MatchingChars(a, b) ==
    IF a = "" \/ b = "" THEN 0
    ELSE LET m == LongestMatch(a, b)
         IN IF m[3] = 0 THEN 0
            ELSE m[3]
                 + MatchingChars(SubSeq(a, 1, m[1] - 1), SubSeq(b, 1, m[2] - 1))
                 + MatchingChars(SubSeq(a, m[1] + m[3], Len(a)),
                                 SubSeq(b, m[2] + m[3], Len(b)))

Ratio(a, b) ==
    IF Len(a) + Len(b) = 0 THEN <<1, 1>>
    ELSE <<2 * MatchingChars(a, b), Len(a) + Len(b)>>

\* s[:n]
Prefix(s, n) == SubSeq(s, 1, IF Len(s) < n THEN Len(s) ELSE n)

\* s.startswith(p)
StartsWith(s, p) == Len(p) <= Len(s) /\ SubSeq(s, 1, Len(p)) = p

\* ------------------------------------------------------------------------
\* Bounds of the model
\* ------------------------------------------------------------------------
\* latest reading of the wall clock
MaxTime == 1
\* largest number of LocationAliases rows the store may hold
MaxAlias == 1

\* the clock of the geocoder client stops at MaxClock ticks, and the client
\* issues up to MaxRequests requests
MaxClock == 8

MaxRequests == 3

\* largest number of rows stored when fingerprints are checked on their own
MaxRows == 2

\* ------------------------------------------------------------------------
\* Configuration (config.py) with the thresholds as fractions
\* ------------------------------------------------------------------------
GEOCODE_CONFIDENCE_THRESHOLD == <<7, 10>>
FUZZY_NAME_THRESHOLD == <<8, 10>>
FUZZY_NAME_THRESHOLD_NO_STREET == <<6, 10>>
\* GEO_PROXIMITY_MILES = 0.5, in thousandths of a mile
GEO_PROXIMITY_MILES == 500

\* ------------------------------------------------------------------------
\* Seeded sources (staging.py SEED_SOURCES); the id is the position
\* ------------------------------------------------------------------------
SEED_SOURCES == <<"sk8stuff", "arena_guide", "learntoskate", "fandom_wiki", "skatetrax">>

SourceId(name) == CHOOSE i \in 1..Len(SEED_SOURCES) : SEED_SOURCES[i] = name

\* the sources run_source has a scrape handler for
ScrapedSources == {"sk8stuff", "arena_guide", "learntoskate", "fandom_wiki"}

VALID_STATUSES == {"active", "closed_permanently", "seasonal", "merged", "disabled"}

\* ------------------------------------------------------------------------
\* utils/common.py
\* ------------------------------------------------------------------------
StateNames ==
    <<"Alabama", "Alaska", "Arizona", "Arkansas", "California", "Colorado",
      "Connecticut", "Delaware", "Florida", "Georgia", "Hawaii", "Idaho",
      "Illinois", "Indiana", "Iowa", "Kansas", "Kentucky", "Louisiana",
      "Maine", "Maryland", "Massachusetts", "Michigan", "Minnesota",
      "Mississippi", "Missouri", "Montana", "Nebraska", "Nevada",
      "New Hampshire", "New Jersey", "New Mexico", "New York",
      "North Carolina", "North Dakota", "Ohio", "Oklahoma", "Oregon",
      "Pennsylvania", "Rhode Island", "South Carolina", "South Dakota",
      "Tennessee", "Texas", "Utah", "Vermont", "Virginia", "Washington",
      "West Virginia", "Wisconsin", "Wyoming", "District of Columbia",
      "American Samoa", "Guam", "Northern Mariana Islands", "Puerto Rico",
      "United States Minor Outlying Islands", "U.S. Virgin Islands">>

StateCodes ==
    <<"AL", "AK", "AZ", "AR", "CA", "CO", "CT", "DE", "FL", "GA", "HI", "ID",
      "IL", "IN", "IA", "KS", "KY", "LA", "ME", "MD", "MA", "MI", "MN", "MS",
      "MO", "MT", "NE", "NV", "NH", "NJ", "NM", "NY", "NC", "ND", "OH", "OK",
      "OR", "PA", "RI", "SC", "SD", "TN", "TX", "UT", "VT", "VA", "WA", "WV",
      "WI", "WY", "DC", "AS", "GU", "MP", "PR", "UM", "VI">>

\* country_us.us_state_to_abbrev.get(state, state): the two-letter keys map
\* to themselves, as does every unknown key
us_state_to_abbrev(state) ==
    IF \E i \in 1..Len(StateNames) : StateNames[i] = state
    THEN StateCodes[CHOOSE i \in 1..Len(StateNames) : StateNames[i] = state]
    ELSE state

st_abbr_keys ==
    <<"APT", "APTS", "AVE", "BLVD", "BR", "CIR", "CT", "DR", "HWY", "HW",
      "LK", "LN", "RD", "MT", "MTN", "PKWY", "PL", "RTE", "SQ", "ST", "STE",
      "TPKE", "TR">>

st_abbr_values ==
    <<"APARTMENT", "APARTMENTS", "AVENUE", "BOULEVARD", "BRIDGE", "CIRCLE",
      "COURT", "DRIVE", "HIGHWAY", "HIGHWAY", "LAKE", "LANE", "ROAD", "MOUNT",
      "MOUNTAIN", "PARKWAY", "PLACE", "ROUTE", "SQUARE", "STREET", "SUITE",
      "TURNPIKE", "TRAIL">>

st_abbr(word) ==
    IF \E i \in 1..Len(st_abbr_keys) : st_abbr_keys[i] = word
    THEN st_abbr_values[CHOOSE i \in 1..Len(st_abbr_keys) : st_abbr_keys[i] = word]
    ELSE word

_lookup_words(input_text) ==
    LET words == SplitWords(MapUpper(input_text))
    IN Join([i \in 1..Len(words) |-> st_abbr(words[i])], " ")

_remove_punctuation(input_text) == KeepWordSpace(input_text)

\* reset_utf8: encode as ISO-8859-1 and decode as UTF-8, else pass through.
\* Every character of the model's texts is ASCII, which the round trip
\* leaves as it is.
reset_utf8(input_text) == input_text

\* country_us._expand_rec_ctrs: "Rec Ctr" (any case) becomes
\* "Recreation Center" and the name is title-cased; a name without the
\* pattern is returned as it is.
RECURSIVE ReplaceRecCtr(_)
ReplaceRecCtr(s) ==
    IF Len(s) < 7 THEN s
    ELSE IF MapLower(SubSeq(s, 1, 7)) = "rec ctr"
         THEN "Recreation Center" \o ReplaceRecCtr(SubSeq(s, 8, Len(s)))
         ELSE CharAt(s, 1) \o ReplaceRecCtr(SubSeq(s, 2, Len(s)))

_expand_rec_ctrs(name) ==
    IF ReplaceRecCtr(name) = name THEN name ELSE Title(ReplaceRecCtr(name))

\* ------------------------------------------------------------------------
\* What the outside world can supply
\* ------------------------------------------------------------------------
\* Rows the fetchers can return, per source, in upstream order
\* (parsers/sk8stuff.py, parsers/arena_guide.py, parsers/learntoskate.py,
\* parsers/fandom_wiki.py give these shapes).
NoExtra == [state |-> NULL, zip |-> NULL, lat |-> NULL, lng |-> NULL, city |-> NULL]

Fetched(source_name) ==
    CASE source_name = "sk8stuff" ->
           <<[name |-> "Rink A", state |-> "IL", city |-> "Ab", street |-> "1 M St"]>>
      [] source_name = "arena_guide" ->
           <<[name |-> "Rink Ab", address |-> "1 M St., Ab, Illinois"],
             [name |-> "Zed", address |-> "Nowhere"]>>
      [] source_name = "learntoskate" ->
           <<[name |-> "Rink Xy", state |-> "IL", zip |-> "60601", lat |-> "41.005",
              lng |-> "-87.000", city |-> "Ab", street |-> "2 M St"]>>
      [] source_name = "fandom_wiki" ->
           <<[name |-> "Rink Ab", state |-> "Illinois", city |-> "Ab"]>>

\* what the fetchers return once upstream lists the sk8stuff rink a second
\* time, its street spelled out
Refetched(source_name) ==
    IF source_name = "sk8stuff"
    THEN Fetched("sk8stuff")
         \o <<[name |-> "Rink A", state |-> "IL", city |-> "Ab", street |-> "1 M Street"]>>
    ELSE Fetched(source_name)

\* run_source, step 1: the per-source conversion of the fetched rows into
\* raw_data rows {name, address, _extra}
RawRow(source_name, r) ==
    CASE source_name = "sk8stuff" ->
           [name |-> r.name,
            address |-> r.street \o ", " \o r.city \o ", " \o r.state,
            extra |-> NoExtra]
      [] source_name = "arena_guide" ->
           [name |-> r.name, address |-> r.address, extra |-> NoExtra]
      [] source_name = "learntoskate" ->
           [name |-> r.name,
            address |-> r.street \o ", " \o r.city \o ", " \o r.state,
            extra |-> [NoExtra EXCEPT !.zip = r.zip, !.lat = r.lat, !.lng = r.lng]]
      [] source_name = "fandom_wiki" ->
           [name |-> r.name,
            address |-> r.city \o ", " \o r.state,
            extra |-> [NoExtra EXCEPT !.city = r.city, !.state = r.state]]

\* every (source, raw_data row) pair that can occur
RawDataRows ==
    UNION {{<<s, RawRow(s, Refetched(s)[i])>> : i \in 1..Len(Refetched(s))} :
              s \in ScrapedSources}

\* Coordinates are written as decimal text.  Answers the geocoder can give
\* to a lookup (geocoder.py geocode returns None, here NoHit, or the first
\* hit).
NoDetail == [state |-> "", city |-> "", road |-> "", town |-> "", village |-> "", iso |-> ""]

NoHit ==
    [lat |-> NULL, found |-> FALSE, lon |-> NULL, display_name |-> NULL,
     postcode |-> NULL, address_detail |-> NoDetail]

\* the place on M Street, with its postcode
HitM ==
    [lat |-> "41.000", found |-> TRUE, lon |-> "-87.000", display_name |-> "1 M Street, Ab",
     postcode |-> "60601",
     address_detail |-> [NoDetail EXCEPT !.road = "M Street", !.city = "Ab",
                                         !.state = "Illinois", !.iso = "US-IL"]]

\* the same place as the geocoder knows it without a postcode
HitMTown ==
    [lat |-> "41.000", found |-> TRUE, lon |-> "-87.000", display_name |-> "1 M Street, Ab",
     postcode |-> NULL,
     address_detail |-> [NoDetail EXCEPT !.road = "M Street", !.town = "Ab",
                                         !.state = "Illinois"]]

\* another place, on Q Road
HitQ ==
    [lat |-> "42.000", found |-> TRUE, lon |-> "-88.000", display_name |-> "9 Q Road, Cd",
     postcode |-> "60602",
     address_detail |-> [NoDetail EXCEPT !.road = "Q Road", !.city = "Cd",
                                         !.state = "Illinois"]]

GeoHits == {HitM, HitMTown, HitQ}

GeoAnswers == {NoHit} \cup GeoHits

\* Rows of the peer system's public location list (promoter.py
\* _load_skatetrax_locations); the list is empty when the peer is unreachable.
PeerRows ==
    <<[rink_id |-> "U1", rink_name |-> "Rink A", rink_address |-> "1 M Street",
       rink_city |-> "Ab", rink_state |-> "IL"]>>

\* ------------------------------------------------------------------------
\* pipeline/fingerprint.py
\* ------------------------------------------------------------------------
\* A text function is computed once for each argument that occurs and its
\* value is looked up after that: Lookup gives the tabulated value, or the
\* function's own value for an argument the table does not hold.
Lookup(table, key, otherwise) == IF key \in DOMAIN table THEN table[key] ELSE otherwise

\* compute_fingerprint leaving the source out of the payload
FingerprintWithoutSource(source_id, raw_name, raw_address) ==
    Strip(MapLower(raw_name \o "|" \o raw_address))

\* compute_fingerprint: the MD5 digest is taken as one-to-one on the
\* lowercased, stripped payload, which stands for its digest
compute_fingerprint(source_id, raw_name, raw_address) ==
    Strip(MapLower(ToString(source_id) \o "|" \o raw_name \o "|" \o raw_address))

\* compute_fingerprint tabulated over the rows the fetchers can return
FingerprintTable ==
    [k \in {<<SourceId(p[1]), p[2].name, p[2].address>> : p \in RawDataRows} |->
        compute_fingerprint(k[1], k[2], k[3])]

FingerprintOf(source_id, raw_name, raw_address) ==
    Lookup(FingerprintTable, <<source_id, raw_name, raw_address>>,
           compute_fingerprint(source_id, raw_name, raw_address))

\* check_and_insert_raw without the lookup of the fingerprint: the row is
\* inserted whether or not it exists
InsertAlways(rawtab, source_id, raw_name, raw_address, fp) ==
    <<Append(rawtab, [source_id |-> source_id,
                      raw_name |-> raw_name,
                      raw_address |-> raw_address,
                      raw_fingerprint |-> fp,
                      parse_status |-> "pending"]),
      Len(rawtab) + 1,
      TRUE>>

\* check_and_insert_raw as an upsert: a row that exists is set back to
\* pending
InsertOrReset(rawtab, source_id, raw_name, raw_address, fp) ==
    IF \E i \in 1..Len(rawtab) : rawtab[i].raw_fingerprint = fp
    THEN <<[i \in 1..Len(rawtab) |->
              IF rawtab[i].raw_fingerprint = fp
              THEN [rawtab[i] EXCEPT !.parse_status = "pending"] ELSE rawtab[i]],
           CHOOSE i \in 1..Len(rawtab) :
              /\ rawtab[i].raw_fingerprint = fp
              /\ \A j \in 1..(i - 1) : rawtab[j].raw_fingerprint # fp,
           FALSE>>
    ELSE <<Append(rawtab, [source_id |-> source_id,
                           raw_name |-> raw_name,
                           raw_address |-> raw_address,
                           raw_fingerprint |-> fp,
                           parse_status |-> "pending"]),
           Len(rawtab) + 1,
           TRUE>>

\* check_and_insert_raw once the fingerprint fp is computed
InsertIfNew(rawtab, source_id, raw_name, raw_address, fp) ==
    IF \E i \in 1..Len(rawtab) : rawtab[i].raw_fingerprint = fp
    THEN <<rawtab,
           CHOOSE i \in 1..Len(rawtab) :
              /\ rawtab[i].raw_fingerprint = fp
              /\ \A j \in 1..(i - 1) : rawtab[j].raw_fingerprint # fp,
           FALSE>>
    ELSE <<Append(rawtab, [source_id |-> source_id,
                           raw_name |-> raw_name,
                           raw_address |-> raw_address,
                           raw_fingerprint |-> fp,
                           parse_status |-> "pending"]),
           Len(rawtab) + 1,
           TRUE>>

\* check_and_insert_raw: <<table after the call, id of the row, is_new>>
check_and_insert_raw(rawtab, source_id, raw_name, raw_address) ==
    InsertIfNew(rawtab, source_id, raw_name, raw_address,
                FingerprintOf(source_id, raw_name, raw_address))

\* ------------------------------------------------------------------------
\* pipeline/runner.py: parsing
\* ------------------------------------------------------------------------
\* Python truthiness of an optional text
Truthy(v) == v # NULL /\ v # ""

\* usaddress.tag(address), the third-party tagger: the comma-separated
\* segments are labelled street components, PlaceName and StateName; an
\* address that does not have that shape makes it raise.
TagSegments(segs) ==
    IF Len(segs) = 3
    THEN [ok |-> TRUE, street_parts |-> SplitWords(segs[1]),
          PlaceName |-> Strip(segs[2]), StateName |-> Strip(segs[3])]
    ELSE IF Len(segs) = 2
    THEN [ok |-> TRUE, street_parts |-> << >>,
          PlaceName |-> Strip(segs[1]), StateName |-> Strip(segs[2])]
    ELSE IF Len(segs) = 1
    THEN [ok |-> TRUE, street_parts |-> << >>,
          PlaceName |-> Strip(segs[1]), StateName |-> ""]
    ELSE [ok |-> FALSE, street_parts |-> << >>, PlaceName |-> "", StateName |-> ""]

usaddress_tag(address) == TagSegments(SplitOn(address, ","))

ParseError == [name |-> NULL, state |-> NULL, city |-> NULL, street |-> NULL, ok |-> FALSE]

\* _parse_entry, the assembled street: street_data.strip(), then
\* _remove_punctuation and _lookup_words when it is not empty
StreetOf(assembled) ==
    IF assembled # "" THEN _lookup_words(_remove_punctuation(assembled)) ELSE NULL

\* _parse_entry, the end: the check for name and street and the result
ParseResult(name, street, city, state) ==
    IF ~Truthy(name) \/ ~Truthy(street) THEN ParseError
    ELSE [name |-> Title(Strip(name)),
          state |-> IF state # "" THEN MapUpper(Strip(state)) ELSE state,
          city |-> IF city # "" THEN Title(Strip(city)) ELSE city,
          street |-> MapUpper(street),
          ok |-> TRUE]

\* _parse_entry once the address is tagged
ParseTagged(name, tagged) ==
    IF ~tagged.ok THEN ParseError
    ELSE ParseResult(name,
                     StreetOf(Strip(Join(tagged.street_parts, " "))),
                     IF tagged.PlaceName # ""
                     THEN _remove_punctuation(tagged.PlaceName) ELSE "",
                     IF tagged.StateName # ""
                     THEN us_state_to_abbrev(tagged.StateName) ELSE "")

\* _parse_entry: [ok |-> FALSE ...] stands for the (None, error) return
_parse_entry(raw_entry) ==
    ParseTagged(_expand_rec_ctrs(reset_utf8(raw_entry.raw_name)),
                usaddress_tag(raw_entry.raw_address))

\* _parse_wiki_entry once name, city and state are read
WikiResult(name, city, state) ==
    IF ~Truthy(name) THEN ParseError
    ELSE IF city = "" /\ state = "" THEN ParseError
    ELSE [name |-> Title(Strip(name)),
          state |-> MapUpper(state),
          city |-> Title(city),
          street |-> NULL,
          ok |-> TRUE]

\* _parse_wiki_entry: city and state come from the wiki table
_parse_wiki_entry(raw_entry, extra) ==
    WikiResult(reset_utf8(raw_entry.raw_name),
               Strip(IF Truthy(extra.city) THEN extra.city ELSE ""),
               us_state_to_abbrev(Strip(IF Truthy(extra.state) THEN extra.state ELSE "")))

\* what an earlier release of the parser made of the first sk8stuff row
\* (runner.py repair_geocode_failed: "Candidates whose street address was
\* incorrectly parsed (missing house numbers)")
LegacyParsed ==
    [name |-> "Rink A", state |-> "IL", city |-> "Ab", street |-> "M STREET", ok |-> TRUE]

\* _parse_entry and _parse_wiki_entry tabulated over the rows the fetchers
\* can return
ParseTable ==
    [k \in {<<p[2].name, p[2].address>> : p \in RawDataRows} |->
        _parse_entry([raw_name |-> k[1], raw_address |-> k[2]])]

ParseOf(raw_entry) ==
    Lookup(ParseTable, <<raw_entry.raw_name, raw_entry.raw_address>>, _parse_entry(raw_entry))

ParseWikiTable ==
    [k \in {<<p[2].name, p[2].extra>> : p \in {q \in RawDataRows : q[1] = "fandom_wiki"}} |->
        _parse_wiki_entry([raw_name |-> k[1]], k[2])]

ParseWikiOf(raw_entry, extra) ==
    Lookup(ParseWikiTable, <<raw_entry.raw_name, extra>>, _parse_wiki_entry(raw_entry, extra))

\* the names and the (street, city, state) addresses the rows above are
\* parsed into
KnownNames == {"Rink A", "Rink Ab", "Rink Xy"}

KnownAddresses ==
    {<<"1 M STREET", "Ab", "IL">>, <<"2 M STREET", "Ab", "IL">>,
     <<"M STREET", "Ab", "IL">>, <<NULL, "Ab", "IL">>}

\* ------------------------------------------------------------------------
\* pipeline/geocoder.py
\* ------------------------------------------------------------------------
\* a score is a fraction <<numerator, denominator>>; NOSCORE is a NULL score
NOSCORE == << >>

FracAtLeast(f, g) == f[1] * g[2] >= g[1] * f[2]

\* the sum of two fractions
FracAdd(f, g) == <<f[1] * g[2] + g[1] * f[2], f[2] * g[2]>>

RECURSIVE FracSum(_)
FracSum(scores) ==
    IF Len(scores) = 1 THEN scores[1]
    ELSE FracAdd(scores[1], FracSum(Tail(scores)))

\* sum(scores) / len(scores) for total = sum(scores)
FracOver(total, n) == <<total[1], total[2] * n>>

\* _score_address, the state comparison for st = candidate_state.upper()
\* and geo_st = geo_state.upper()
StateScore(candidate_state, geo_iso, geo_state, st, geo_st) ==
    IF ~Truthy(candidate_state) THEN << >>
    ELSE IF geo_iso # ""
    THEN <<IF st = MapUpper(SplitOn(geo_iso, "-")[Len(SplitOn(geo_iso, "-"))])
           THEN <<1, 1>> ELSE <<0, 1>>>>
    ELSE IF geo_state # ""
    THEN <<IF st = geo_st \/ StartsWith(st, Prefix(geo_st, 2))
           THEN <<1, 1>>
           ELSE Ratio(st, geo_st)>>
    ELSE << >>

\* _score_address, the end: the mean of the scores, 0.0 for none
MeanScore(scores) ==
    IF scores = << >> THEN <<0, 1>> ELSE FracOver(FracSum(scores), Len(scores))

\* geo_address_detail.get('city') or .get('town') or .get('village', '')
GeoCity(geo_address_detail) ==
    IF geo_address_detail.city # "" THEN geo_address_detail.city
    ELSE IF geo_address_detail.town # "" THEN geo_address_detail.town
    ELSE geo_address_detail.village

\* _score_address, one text comparison: no score when either side is empty
TextScore(candidate_text, geo_text) ==
    IF Truthy(candidate_text) /\ geo_text # ""
    THEN <<Ratio(MapLower(candidate_text), MapLower(geo_text))>>
    ELSE << >>

_score_address(candidate_street, candidate_city, candidate_state, geo_address_detail) ==
    MeanScore(TextScore(candidate_street, geo_address_detail.road)
              \o TextScore(candidate_city, GeoCity(geo_address_detail))
              \o StateScore(candidate_state, geo_address_detail.iso,
                            geo_address_detail.state,
                            MapUpper(Strip(candidate_state)),
                            MapUpper(Strip(geo_address_detail.state))))

\* _score_address tabulated over the candidates and answers that can occur
ScoreTable ==
    [k \in {<<a[1], a[2], a[3], h.address_detail>> : <<a, h>> \in KnownAddresses \X GeoHits} |->
        _score_address(k[1], k[2], k[3], k[4])]

ScoreOf(candidate_street, candidate_city, candidate_state, geo_address_detail) ==
    Lookup(ScoreTable,
           <<candidate_street, candidate_city, candidate_state, geo_address_detail>>,
           _score_address(candidate_street, candidate_city, candidate_state,
                          geo_address_detail))

\* geocode_candidate with a score that has to exceed the threshold
ScoredStrict(candidate, answer, confidence) ==
    [candidate EXCEPT
       !.geo_lat = answer.lat,
       !.geo_lon = answer.lon,
       !.geo_matched_name = answer.display_name,
       !.zip = IF Truthy(answer.postcode) THEN answer.postcode ELSE @,
       !.geo_confidence = confidence,
       !.verification_status =
           IF ~FracAtLeast(GEOCODE_CONFIDENCE_THRESHOLD, confidence)
           THEN "geocode_match" ELSE "geocode_mismatch"]

\* geocode_candidate, a lookup that found a place scored confidence
Scored(candidate, answer, confidence) ==
    [candidate EXCEPT
       !.geo_lat = answer.lat,
       !.geo_lon = answer.lon,
       !.geo_matched_name = answer.display_name,
       !.zip = IF Truthy(answer.postcode) THEN answer.postcode ELSE @,
       !.geo_confidence = confidence,
       !.verification_status =
           IF FracAtLeast(confidence, GEOCODE_CONFIDENCE_THRESHOLD)
           THEN "geocode_match" ELSE "geocode_mismatch"]

\* geocode_candidate: the candidate row after the lookup returned answer
geocode_candidate(candidate, answer) ==
    IF ~answer.found
    THEN [candidate EXCEPT !.verification_status = "geocode_failed"]
    ELSE Scored(candidate, answer,
                ScoreOf(candidate.street, candidate.city, candidate.state,
                        answer.address_detail))

\* ------------------------------------------------------------------------
\* pipeline/matcher.py
\* ------------------------------------------------------------------------
_normalize_for_dedup(text) ==
    IF ~Truthy(text) THEN ""
    ELSE Strip(CollapseSpaces(KeepLowerAlnumSpace(Strip(MapLower(text)))))

\* the texts that occur in a candidate, a location or a peer row
KnownTexts ==
    KnownNames \cup {"1 M STREET", "2 M STREET", "M STREET", "1 M Street", "Ab", "IL", "", NULL}

\* _normalize_for_dedup and the name ratio tabulated over those texts
DedupTable == [t \in KnownTexts |-> _normalize_for_dedup(t)]

DedupOf(text) == Lookup(DedupTable, text, _normalize_for_dedup(text))

RatioTable ==
    [k \in {_normalize_for_dedup(t) : t \in KnownNames}
              \X {_normalize_for_dedup(t) : t \in KnownNames} |->
        Ratio(k[1], k[2])]

RatioOf(a, b) == Lookup(RatioTable, <<a, b>>, Ratio(a, b))

\* _haversine_miles in thousandths of a mile, tabulated from the formula
\* (R = 3958.8) for the coordinates that occur
GeoPoints == <<<<"41.000", "-87.000">>, <<"41.005", "-87.000">>, <<"42.000", "-88.000">>>>

HaversineTable == <<<<0, 345, 86323>>, <<345, 0, 86045>>, <<86323, 86045, 0>>>>

PointIndex(lat, lon) == CHOOSE i \in 1..Len(GeoPoints) : GeoPoints[i] = <<lat, lon>>

_haversine_miles(lat1, lon1, lat2, lon2) ==
    HaversineTable[PointIndex(lat1, lon1)][PointIndex(lat2, lon2)]

VerifiedPool == {"geocode_match", "human_approved", "source_verified"}

\* the first element of the id sequence ids that satisfies Test, else 0
FirstWhere(ids, Test(_)) ==
    IF \E k \in 1..Len(ids) : Test(ids[k])
    THEN ids[CHOOSE k \in 1..Len(ids) :
                /\ Test(ids[k])
                /\ \A j \in 1..(k - 1) : ~Test(ids[j])]
    ELSE 0

\* the ids of the set S in ascending order
RECURSIVE Ascending(_)
Ascending(S) ==
    IF S = {} THEN << >>
    ELSE <<CHOOSE i \in S : \A j \in S : i <= j>>
         \o Ascending(S \ {CHOOSE i \in S : \A j \in S : i <= j})

\* find_duplicate with a pool of every other candidate, whatever its
\* status
EveryOther(candtab, cid) == Ascending({i \in 1..Len(candtab) : i # cid})

\* find_duplicate with a pool that misses the candidate inserted last
\* before cid: what the query gives when the earlier insert has not
\* reached the table
VerifiedOthersStored(candtab, cid) ==
    Ascending({i \in 1..Len(candtab) :
                 /\ i # cid /\ i # cid - 1
                 /\ candtab[i].verification_status \in VerifiedPool})

\* find_duplicate, the pool of the verified candidates other than cid and
\* the pool extended by the unverified ones, in id order
VerifiedOthers(candtab, cid) ==
    Ascending({i \in 1..Len(candtab) :
                 i # cid /\ candtab[i].verification_status \in VerifiedPool})

ExtendedOthers(candtab, cid) ==
    Ascending({i \in 1..Len(candtab) :
                 i # cid /\ candtab[i].verification_status \in VerifiedPool \cup {"unverified"}})

\* find_duplicate that answers with the match of the lowest id, whatever
\* its layer
FirstById(m1, m2, m3) ==
    IF m1 # 0 /\ (m2 = 0 \/ m1 <= m2) /\ (m3 = 0 \/ m1 <= m3) THEN <<m1, "address_exact">>
    ELSE IF m2 # 0 /\ (m3 = 0 \/ m2 <= m3) THEN <<m2, "fuzzy_name">>
    ELSE IF m3 # 0 THEN <<m3, "geo_proximity">>
    ELSE <<0, NULL>>

\* find_duplicate, the end: the first layer that found a match
FirstLayer(m1, m2, m3) ==
    IF m1 # 0 THEN <<m1, "address_exact">>
    ELSE IF m2 # 0 THEN <<m2, "fuzzy_name">>
    ELSE IF m3 # 0 THEN <<m3, "geo_proximity">>
    ELSE <<0, NULL>>

\* find_duplicate, layer 2 for one row of the pool: the name ratio against
\* the threshold that holds when either side has no street
FuzzyNameMatch(norm_name, other_name, no_street) ==
    FracAtLeast(RatioOf(norm_name, other_name),
                IF no_street THEN FUZZY_NAME_THRESHOLD_NO_STREET ELSE FUZZY_NAME_THRESHOLD)

\* find_duplicate once the candidate's fields are normalised
DuplicateOf(candtab, cid, norm_street, norm_city, norm_state, norm_name) ==
    LET Layer1(i) ==
            /\ norm_street # ""
            /\ DedupOf(candtab[i].street) # ""
            /\ norm_street = DedupOf(candtab[i].street)
            /\ norm_city = DedupOf(candtab[i].city)
            /\ norm_state = DedupOf(candtab[i].state)
        Layer2(i) ==
            /\ norm_city = DedupOf(candtab[i].city)
            /\ norm_state = DedupOf(candtab[i].state)
            /\ FuzzyNameMatch(norm_name, DedupOf(candtab[i].name),
                              norm_street = "" \/ DedupOf(candtab[i].street) = "")
        Layer3(i) ==
            /\ candtab[i].geo_lat # NULL
            /\ candtab[i].geo_lon # NULL
            /\ _haversine_miles(candtab[cid].geo_lat, candtab[cid].geo_lon,
                                candtab[i].geo_lat, candtab[i].geo_lon)
                  <= GEO_PROXIMITY_MILES
    IN FirstLayer(FirstWhere(VerifiedOthers(candtab, cid), Layer1),
                  FirstWhere(IF norm_street # "" THEN VerifiedOthers(candtab, cid)
                             ELSE ExtendedOthers(candtab, cid), Layer2),
                  IF candtab[cid].geo_lat # NULL /\ candtab[cid].geo_lon # NULL
                  THEN FirstWhere(VerifiedOthers(candtab, cid), Layer3)
                  ELSE 0)

\* find_duplicate: <<id of the matching candidate, layer>> or <<0, NULL>>;
\* the queries return the rows in id order
find_duplicate(candtab, cid) ==
    DuplicateOf(candtab, cid,
                DedupOf(candtab[cid].street), DedupOf(candtab[cid].city),
                DedupOf(candtab[cid].state), DedupOf(candtab[cid].name))

\* ------------------------------------------------------------------------
\* The store (pipeline/staging.py).  Each table is the sequence of its rows
\* in insertion order; for the tables with an autoincrement key the id of a
\* row is its position (raw_entries, candidates and rejected_entries never
\* lose a row).
\* ------------------------------------------------------------------------
VARIABLES
    raw_entries,        \* RawEntries
    candidates,         \* Candidates
    rejected_entries,   \* RejectedEntries
    locations,          \* Locations
    location_sources,   \* LocationSources
    location_aliases,   \* LocationAliases
    peer_locations,     \* the locations table of the peer (SkatetraxLocation)
    rate_limiter,       \* the geocoder client: _last_request_time, the clock
                        \* time.time() reads, the call of _rate_limit under way
                        \* and the times the requests were issued at
    now,                \* the wall clock, datetime.now(timezone.utc)
    last,               \* the operation that ran last: its name, its arguments,
                        \* whether it succeeded, and the counts a merge returns
    pager               \* the locals of pull_arena_guide_content, the position of
                        \* its loop, and the pages upstream has answered with

vars == <<raw_entries, candidates, rejected_entries, locations,
          location_sources, location_aliases, peer_locations, rate_limiter, now, last,
          pager>>

\* the whole database as one value
DB == [raw |-> raw_entries, cand |-> candidates, rej |-> rejected_entries,
       loc |-> locations, ls |-> location_sources, al |-> location_aliases]

\* Candidates(...) with the column defaults
NewCandidate(raw_entry_id, parsed) ==
    [name |-> parsed.name,
     state |-> parsed.state,
     zip |-> NULL,
     city |-> parsed.city,
     street |-> parsed.street,
     geo_lat |-> NULL,
     geo_lon |-> NULL,
     geo_matched_name |-> NULL,
     geo_confidence |-> NOSCORE,
     verification_status |-> "unverified",
     raw_entry_id |-> raw_entry_id,
     location_id |-> NULL]

Rejection(raw_entry_id, reason, error) ==
    [raw_entry_id |-> raw_entry_id, rejection_reason |-> reason, raw_parse_error |-> error]

\* f"{x:.2f}" of a fraction between 0 and 1
Format2f(f) ==
    LET h == (200 * f[1] + f[2]) \div (2 * f[2])
    IN ToString(h \div 100) \o "." \o ToString((h % 100) \div 10) \o ToString(h % 10)

MismatchText(cand) ==
    "Confidence " \o Format2f(cand.geo_confidence) \o ", matched: " \o cand.geo_matched_name

\* ------------------------------------------------------------------------
\* pipeline/runner.py: run_source
\* ------------------------------------------------------------------------
RunStats0 ==
    [parsed |-> 0, scraped |-> 0, new |-> 0, skipped |-> 0, parse_failed |-> 0,
     geocoded |-> 0, geocode_match |-> 0, geocode_mismatch |-> 0,
     geocode_failed |-> 0, source_verified |-> 0,
     dedup_exact |-> 0, dedup_fuzzy |-> 0, dedup_geo |-> 0]

\* Steps 2-3, one row: r is what check_and_insert_raw returned for it.
\* acc = [raw, new_entries, extras, stats].
Inserted(acc, row, r) ==
    [raw |-> r[1],
     new_entries |-> IF r[3] THEN Append(acc.new_entries, r[2]) ELSE acc.new_entries,
     extras |-> IF r[3] THEN Append(acc.extras, row.extra) ELSE acc.extras,
     stats |-> IF r[3] THEN [acc.stats EXCEPT !.new = @ + 1]
               ELSE [acc.stats EXCEPT !.skipped = @ + 1]]

\* Steps 2-3: fingerprint and insert the rows from position k on.  limit = 0
\* stands for limit=None.
RECURSIVE InsertRaws(_, _, _, _, _)
\* the check of the limit after a row, and the rest of the loop
InsertRest(acc, source_id, raw_data, limit, k) ==
    IF limit # 0 /\ acc.stats.new >= limit THEN acc
    ELSE InsertRaws(acc, source_id, raw_data, limit, k + 1)

InsertRaws(acc, source_id, raw_data, limit, k) ==
    IF k > Len(raw_data) THEN acc
    ELSE InsertRest(Inserted(acc, raw_data[k],
                             check_and_insert_raw(acc.raw, source_id, raw_data[k].name,
                                                  raw_data[k].address)),
                    source_id, raw_data, limit, k)

\* Step 4, the candidate built from the parsed fields and the row's extras
CandidateOf(raw_id, parsed, extra) ==
    [NewCandidate(raw_id, parsed) EXCEPT
       !.zip = IF Truthy(extra.zip) THEN extra.zip ELSE @,
       !.geo_lat = IF extra.lat # NULL /\ extra.lng # NULL THEN extra.lat ELSE @,
       !.geo_lon = IF extra.lat # NULL /\ extra.lng # NULL THEN extra.lng ELSE @]

\* Step 6 with the geocoder asked: geocoded is the candidate after
\* geocode_candidate.  st = [raw, cand, rej, stats].
Verified(st, raw_id, cid, geocoded) ==
    [st EXCEPT
       !.cand[cid] = geocoded,
       !.rej = IF geocoded.verification_status = "geocode_mismatch"
               THEN Append(@, Rejection(raw_id, "geocode_mismatch", MismatchText(geocoded)))
               ELSE @,
       !.stats.geocoded = @ + 1,
       !.stats.geocode_match =
           IF geocoded.verification_status = "geocode_match" THEN @ + 1 ELSE @,
       !.stats.geocode_mismatch =
           IF geocoded.verification_status = "geocode_mismatch" THEN @ + 1 ELSE @,
       !.stats.geocode_failed =
           IF geocoded.verification_status = "geocode_failed" THEN @ + 1 ELSE @]

\* Steps 5-6 with a rejection that does not tell the layers apart
DeduplicatedOneReason(st, geocode, raw_id, cid, answer, found) ==
    IF found[1] # 0
    THEN [st EXCEPT
            !.rej = Append(@, Rejection(raw_id, "suspected_duplicate",
                       "Matches candidate " \o ToString(found[1]) \o ": "
                          \o st.cand[found[1]].name)),
            !.cand[cid].verification_status = "duplicate"]
    ELSE IF /\ st.cand[cid].geo_lat # NULL
            /\ st.cand[cid].geo_lon # NULL
            /\ Truthy(st.cand[cid].zip)
    THEN [st EXCEPT !.cand[cid].verification_status = "source_verified",
                    !.stats.source_verified = @ + 1]
    ELSE IF geocode
    THEN Verified(st, raw_id, cid, geocode_candidate(st.cand[cid], answer))
    ELSE st

\* Steps 5-6 marking source_verified on the coordinates alone, whatever
\* the zip
DeduplicatedOnCoordinates(st, geocode, raw_id, cid, answer, found) ==
    IF found[1] # 0
    THEN [st EXCEPT
            !.rej = Append(@, Rejection(raw_id,
                       IF found[2] = "address_exact" THEN "duplicate_address_exact"
                       ELSE "suspected_duplicate",
                       "Matches candidate " \o ToString(found[1]) \o ": "
                          \o st.cand[found[1]].name)),
            !.cand[cid].verification_status = "duplicate",
            !.stats.dedup_exact = IF found[2] = "address_exact" THEN @ + 1 ELSE @,
            !.stats.dedup_fuzzy = IF found[2] = "fuzzy_name" THEN @ + 1 ELSE @,
            !.stats.dedup_geo = IF found[2] = "geo_proximity" THEN @ + 1 ELSE @]
    ELSE IF st.cand[cid].geo_lat # NULL /\ st.cand[cid].geo_lon # NULL
    THEN [st EXCEPT !.cand[cid].verification_status = "source_verified",
                    !.stats.source_verified = @ + 1]
    ELSE IF geocode
    THEN Verified(st, raw_id, cid, geocode_candidate(st.cand[cid], answer))
    ELSE st

\* Steps 5-6 for the candidate cid just inserted: found is what
\* find_duplicate returned for it
Deduplicated(st, geocode, raw_id, cid, answer, found) ==
    IF found[1] # 0
    THEN [st EXCEPT
            !.rej = Append(@, Rejection(raw_id,
                       IF found[2] = "address_exact" THEN "duplicate_address_exact"
                       ELSE "suspected_duplicate",
                       "Matches candidate " \o ToString(found[1]) \o ": "
                          \o st.cand[found[1]].name)),
            !.cand[cid].verification_status = "duplicate",
            !.stats.dedup_exact = IF found[2] = "address_exact" THEN @ + 1 ELSE @,
            !.stats.dedup_fuzzy = IF found[2] = "fuzzy_name" THEN @ + 1 ELSE @,
            !.stats.dedup_geo = IF found[2] = "geo_proximity" THEN @ + 1 ELSE @]
    ELSE IF /\ st.cand[cid].geo_lat # NULL
            /\ st.cand[cid].geo_lon # NULL
            /\ Truthy(st.cand[cid].zip)
    THEN [st EXCEPT !.cand[cid].verification_status = "source_verified",
                    !.stats.source_verified = @ + 1]
    ELSE IF geocode
    THEN Verified(st, raw_id, cid, geocode_candidate(st.cand[cid], answer))
    ELSE st

\* Steps 5-6 after the candidate is inserted into st
CheckCandidate(st, geocode, raw_id, answer) ==
    Deduplicated(st, geocode, raw_id, Len(st.cand), answer,
                 find_duplicate(st.cand, Len(st.cand)))

\* Step 4 with a failure that is counted and not recorded: no
\* RejectedEntry is added
ParsedUnrecorded(st, geocode, raw_id, extra, answer, parsed) ==
    IF ~parsed.ok
    THEN [st EXCEPT !.raw[raw_id].parse_status = "failed",
                    !.stats.parse_failed = @ + 1]
    ELSE CheckCandidate([st EXCEPT !.raw[raw_id].parse_status = "parsed",
                                   !.cand = Append(@, CandidateOf(raw_id, parsed, extra)),
                                   !.stats.parsed = @ + 1],
                        geocode, raw_id, answer)

\* Step 4 for one new entry once it is parsed
Parsed(st, geocode, raw_id, extra, answer, parsed) ==
    IF ~parsed.ok
    THEN [st EXCEPT
            !.raw[raw_id].parse_status = "failed",
            !.rej = Append(@, Rejection(raw_id, "parse_failure", "parse error")),
            !.stats.parse_failed = @ + 1]
    ELSE CheckCandidate([st EXCEPT !.raw[raw_id].parse_status = "parsed",
                                   !.cand = Append(@, CandidateOf(raw_id, parsed, extra)),
                                   !.stats.parsed = @ + 1],
                        geocode, raw_id, answer)

\* Steps 4-6 for one new entry: parse, insert the candidate, dedup,
\* verify; answer is what the geocoder returns if it is asked
ProcessEntry(st, source_name, geocode, raw_id, extra, answer) ==
    Parsed(st, geocode, raw_id, extra, answer,
           IF source_name = "fandom_wiki"
           THEN ParseWikiOf(st.raw[raw_id], extra)
           ELSE ParseOf(st.raw[raw_id]))

RECURSIVE ProcessEntries(_, _, _, _, _, _, _)
ProcessEntries(st, source_name, geocode, new_entries, extras, answers, k) ==
    IF k > Len(new_entries) THEN st
    ELSE ProcessEntries(
            ProcessEntry(st, source_name, geocode, new_entries[k], extras[k], answers[k]),
            source_name, geocode, new_entries, extras, answers, k + 1)

\* the database with the tables of st
WithTables(db, st) == [db EXCEPT !.raw = st.raw, !.cand = st.cand, !.rej = st.rej]

\* the database and the stats a loop ended with
Finished(db, st) == [stats |-> st.stats, db |-> WithTables(db, st)]

\* run_source after steps 2-3 left ins
AfterInsert(db, source_name, scrape_only, geocode, answers, ins) ==
    IF scrape_only
    THEN [stats |-> ins.stats, db |-> [db EXCEPT !.raw = ins.raw]]
    ELSE Finished(db, ProcessEntries([raw |-> ins.raw, cand |-> db.cand, rej |-> db.rej,
                                      stats |-> ins.stats],
                                     source_name, geocode, ins.new_entries, ins.extras,
                                     answers, 1))

\* run_source: the database and the stats after the run.  fetched is what
\* the source's fetcher returned, answers[k] what the geocoder returns for
\* the k-th new entry if it is asked.
run_source(db, source_name, scrape_only, geocode, limit, fetched, answers) ==
    AfterInsert(db, source_name, scrape_only, geocode, answers,
                InsertRaws([raw |-> db.raw, new_entries |-> << >>, extras |-> << >>,
                            stats |-> [RunStats0 EXCEPT !.scraped = Len(fetched)]],
                           SourceId(source_name),
                           [i \in 1..Len(fetched) |-> RawRow(source_name, fetched[i])],
                           limit, 1))

\* geocode_pending, one candidate of the loop: geocoded is the candidate
\* after geocode_candidate.  st = [cand, rej, stats].
Geocoded(st, cid, geocoded) ==
    [st EXCEPT
       !.cand[cid] = geocoded,
       !.rej = IF geocoded.verification_status = "geocode_mismatch"
               THEN Append(@, Rejection(geocoded.raw_entry_id, "geocode_mismatch",
                                        MismatchText(geocoded)))
               ELSE @,
       !.stats.geocoded = @ + 1,
       !.stats.geocode_match =
           IF geocoded.verification_status = "geocode_match" THEN @ + 1 ELSE @,
       !.stats.geocode_mismatch =
           IF geocoded.verification_status = "geocode_mismatch" THEN @ + 1 ELSE @,
       !.stats.geocode_failed =
           IF geocoded.verification_status = "geocode_failed" THEN @ + 1 ELSE @]

RECURSIVE GeocodeEach(_, _, _, _)
GeocodeEach(st, ids, answers, k) ==
    IF k > Len(ids) THEN st
    ELSE GeocodeEach(Geocoded(st, ids[k], geocode_candidate(st.cand[ids[k]], answers[ids[k]])),
                     ids, answers, k + 1)

HasStreet(c) == Strip(IF Truthy(c.street) THEN c.street ELSE "") # ""

\* geocode_pending with a query that takes the candidates that are linked
\* to a location as well
PendingOrLinkedIds(db, source_name) ==
    {i \in 1..Len(db.cand) :
        /\ \/ db.cand[i].verification_status = "unverified"
           \/ db.cand[i].location_id # NULL
        /\ source_name # NULL =>
              db.raw[db.cand[i].raw_entry_id].source_id = SourceId(source_name)}

\* geocode_pending with a query that takes the candidates the geocoder has
\* turned down as well
PendingOrRejectedIds(db, source_name) ==
    {i \in 1..Len(db.cand) :
        /\ db.cand[i].verification_status \in
              {"unverified", "geocode_mismatch", "geocode_failed"}
        /\ source_name # NULL =>
              db.raw[db.cand[i].raw_entry_id].source_id = SourceId(source_name)}

\* geocode_pending, the query: the unverified candidates, of one source when
\* source_name is given
PendingIds(db, source_name) ==
    {i \in 1..Len(db.cand) :
        /\ db.cand[i].verification_status = "unverified"
        /\ source_name # NULL =>
              db.raw[db.cand[i].raw_entry_id].source_id = SourceId(source_name)}

\* geocode_pending: source_name = NULL means every source; answers[cid] is
\* what the geocoder returns for candidate cid
geocode_pending(db, source_name, answers) ==
    Finished(db,
             GeocodeEach([raw |-> db.raw, cand |-> db.cand, rej |-> db.rej,
                          stats |-> [geocoded |-> 0, geocode_match |-> 0,
                                     geocode_mismatch |-> 0, geocode_failed |-> 0,
                                     total_pending |->
                                        Cardinality(PendingIds(db, source_name)),
                                     skipped_no_street |->
                                        Cardinality({i \in PendingIds(db, source_name) :
                                                        ~HasStreet(db.cand[i])})]],
                         Ascending({i \in PendingIds(db, source_name) :
                                       HasStreet(db.cand[i])}),
                         answers, 1))

\* repair_geocode_failed, one candidate, reset whenever its raw entry parses
RepairedAlways(cand, cid, parsed) ==
    IF parsed.ok /\ Truthy(parsed.street)
    THEN [cand EXCEPT ![cid] =
            [@ EXCEPT !.street = parsed.street,
                      !.city = parsed.city,
                      !.state = parsed.state,
                      !.verification_status = "unverified",
                      !.geo_lat = NULL,
                      !.geo_lon = NULL,
                      !.geo_confidence = NOSCORE,
                      !.geo_matched_name = NULL,
                      !.zip = NULL]]
    ELSE cand

\* repair_geocode_failed, one candidate once its raw entry is parsed again:
\* reset when the street came out different, else left as it is
Repaired(cand, cid, parsed) ==
    IF parsed.ok /\ Truthy(parsed.street) /\ parsed.street # cand[cid].street
    THEN [cand EXCEPT ![cid] =
            [@ EXCEPT !.street = parsed.street,
                      !.city = parsed.city,
                      !.state = parsed.state,
                      !.verification_status = "unverified",
                      !.geo_lat = NULL,
                      !.geo_lon = NULL,
                      !.geo_confidence = NOSCORE,
                      !.geo_matched_name = NULL,
                      !.zip = NULL]]
    ELSE cand

\* repair_geocode_failed, the counters for one candidate
RepairCounted(r, cand, cid, parsed) ==
    [r EXCEPT
       !.repaired = IF parsed.ok /\ Truthy(parsed.street) /\ parsed.street # cand[cid].street
                    THEN @ + 1 ELSE @,
       !.unchanged = IF parsed.ok
                        /\ ~(Truthy(parsed.street) /\ parsed.street # cand[cid].street)
                     THEN @ + 1 ELSE @,
       !.still_failed = IF ~parsed.ok THEN @ + 1 ELSE @]

RECURSIVE RepairEach(_, _, _, _)
\* one candidate of the loop, parsed again, and the rest of the loop
RepairOne(r, rawtab, ids, k, parsed) ==
    RepairEach(RepairCounted([r EXCEPT !.cand = Repaired(r.cand, ids[k], parsed)],
                             r.cand, ids[k], parsed),
               rawtab, ids, k + 1)

RepairEach(r, rawtab, ids, k) ==
    IF k > Len(ids) THEN r
    ELSE RepairOne(r, rawtab, ids, k, ParseOf(rawtab[r.cand[ids[k]].raw_entry_id]))

\* repair_geocode_failed: r = [cand, total, repaired, still_failed, unchanged]
RepairResult(db, r) ==
    [stats |-> [total |-> r.total, repaired |-> r.repaired,
                unchanged |-> r.unchanged, still_failed |-> r.still_failed],
     db |-> [db EXCEPT !.cand = r.cand]]

FailedIds(db) ==
    Ascending({i \in 1..Len(db.cand) : db.cand[i].verification_status = "geocode_failed"})

repair_geocode_failed(db) ==
    RepairResult(db, RepairEach([total |-> Len(FailedIds(db)), cand |-> db.cand,
                                 repaired |-> 0, unchanged |-> 0, still_failed |-> 0],
                                db.raw, FailedIds(db), 1))

\* ------------------------------------------------------------------------
\* pipeline/promoter.py
\* ------------------------------------------------------------------------
_normalize(text) ==
    IF ~Truthy(text) THEN ""
    ELSE Strip(CollapseSpaces(KeepLowerAlnumSpace(Strip(MapLower(text)))))

\* _normalize tabulated over the texts that can occur
NormalizeTable == [t \in KnownTexts |-> _normalize(t)]

NormalizeOf(text) == Lookup(NormalizeTable, text, _normalize(text))

\* the statuses the location query of _find_matching_location leaves out
MatchHiddenStatuses == {"merged", "disabled"}

\* the first of the two layers that found a match
FirstOfTwo(m1, m2) == IF m1 # 0 THEN m1 ELSE m2

\* the two-layer test once the fields looked for are normalised
TwoLayers(rows, norm_street, norm_city, norm_state, norm_name) ==
    LET Layer1(i) ==
            /\ norm_street # ""
            /\ NormalizeOf(rows[i].street) # ""
            /\ norm_street = NormalizeOf(rows[i].street)
            /\ norm_city = NormalizeOf(rows[i].city)
            /\ norm_state = NormalizeOf(rows[i].state)
        Layer2(i) ==
            /\ norm_city = NormalizeOf(rows[i].city)
            /\ norm_state = NormalizeOf(rows[i].state)
            /\ FuzzyNameMatch(norm_name, NormalizeOf(rows[i].name),
                              norm_street = "" \/ NormalizeOf(rows[i].street) = "")
    IN FirstOfTwo(FirstWhere([i \in 1..Len(rows) |-> i], Layer1),
                  FirstWhere([i \in 1..Len(rows) |-> i], Layer2))

\* the two-layer test of _find_matching_location and _find_skatetrax_match
\* against rows given as [name, street, city, state]; the position of the
\* first match in rows, or 0
TwoLayerMatch(rows, name, street, city, state) ==
    TwoLayers(rows, NormalizeOf(street), NormalizeOf(city), NormalizeOf(state),
              NormalizeOf(name))

\* the location a position among the visible ones stands for
VisibleAt(visible, m) == IF m = 0 THEN 0 ELSE visible[m]

\* _find_matching_location over the locations the query returns
MatchAmong(loctab, visible, name, street, city, state) ==
    VisibleAt(visible,
              TwoLayerMatch([k \in 1..Len(visible) |->
                               [name |-> loctab[visible[k]].rink_name,
                                state |-> loctab[visible[k]].rink_state,
                                city |-> loctab[visible[k]].rink_city,
                                street |-> loctab[visible[k]].rink_address]],
                            name, street, city, state))

\* _find_matching_location: the position in loctab of the match, or 0; the
\* query returns the rows in insertion order
_find_matching_location(loctab, name, street, city, state) ==
    MatchAmong(loctab,
               Ascending({i \in 1..Len(loctab) :
                            loctab[i].rink_status \notin MatchHiddenStatuses}),
               name, street, city, state)

\* _find_skatetrax_match: the position in the peer list of the match, or 0
_find_skatetrax_match(skatetrax_locations, name, street, city, state) ==
    TwoLayerMatch([k \in 1..Len(skatetrax_locations) |->
                     [name |-> skatetrax_locations[k].rink_name,
                      state |-> skatetrax_locations[k].rink_state,
                      city |-> skatetrax_locations[k].rink_city,
                      street |-> skatetrax_locations[k].rink_address]],
                  name, street, city, state)

\* session.get(Locations, rink_id): the position in loctab, or 0
LocationIndex(loctab, rink_id) ==
    IF \E i \in 1..Len(loctab) : loctab[i].rink_id = rink_id
    THEN CHOOSE i \in 1..Len(loctab) : loctab[i].rink_id = rink_id
    ELSE 0

\* _source_name_for
_source_name_for(db, cid) == SEED_SOURCES[db.raw[db.cand[cid].raw_entry_id].source_id]

\* _add_location_source without the update of the existing link: a row is
\* added each time
LinkAppended(ls, e, location_id, source_id, cid, t) ==
    Append(ls, [source_id |-> source_id,
                location_id |-> location_id,
                candidate_id |-> cid,
                first_seen_at |-> t,
                last_seen_at |-> t,
                is_present |-> TRUE])

\* _add_location_source once the existing link is looked up: e is its
\* position in the table, or 0
LinkSeen(ls, e, location_id, source_id, cid, t) ==
    IF e # 0
    THEN [ls EXCEPT ![e].last_seen_at = t, ![e].is_present = TRUE]
    ELSE Append(ls, [source_id |-> source_id,
                     location_id |-> location_id,
                     candidate_id |-> cid,
                     first_seen_at |-> t,
                     last_seen_at |-> t,
                     is_present |-> TRUE])

\* the position of the first link of (location_id, source_id), or 0
LinkIndex(ls, location_id, source_id) ==
    LET Hit(i) == ls[i].location_id = location_id /\ ls[i].source_id = source_id
    IN FirstWhere([i \in 1..Len(ls) |-> i], Hit)

\* _add_location_source at time t: the location_sources table afterwards
_add_location_source(db, location_id, cid, t) ==
    LinkSeen(db.ls,
             LinkIndex(db.ls, location_id, db.raw[db.cand[cid].raw_entry_id].source_id),
             location_id, db.raw[db.cand[cid].raw_entry_id].source_id, cid, t)

\* uuid4(): an identifier no location and no peer row has
FreshUuid(loctab) == "m" \o ToString(Len(loctab) + 1)

Phase1Stats0 ==
    [promoted_new |-> 0, promoted_existing |-> 0, skipped_no_zip |-> 0,
     adopted_skatetrax_uuid |-> 0]

\* the database with the link of candidate cid to the location added
WithLink(db1, rink_id, cid, t) ==
    [db1 EXCEPT !.ls = _add_location_source(db1, rink_id, cid, t)]

\* promote_verified, the candidate is linked to a location that exists
LinkTo(st, cid, rink_id, t) ==
    [stats |-> [st.stats EXCEPT !.promoted_existing = @ + 1],
     db |-> WithLink([st.db EXCEPT !.cand[cid].location_id = rink_id], rink_id, cid, t)]

\* promote_verified, a location is created for the candidate
Create(st, cid, rink_id, adopted, t) ==
    [stats |-> [st.stats EXCEPT
                  !.promoted_new = @ + 1,
                  !.adopted_skatetrax_uuid = IF adopted THEN @ + 1 ELSE @],
     db |-> WithLink([st.db EXCEPT
                        !.loc = Append(@,
                           [rink_id |-> rink_id,
                            rink_name |-> st.db.cand[cid].name,
                            rink_address |-> IF Truthy(st.db.cand[cid].street)
                                             THEN st.db.cand[cid].street ELSE "",
                            rink_city |-> st.db.cand[cid].city,
                            rink_state |-> st.db.cand[cid].state,
                            rink_status |-> "active",
                            rink_zip |-> st.db.cand[cid].zip,
                            data_source |-> _source_name_for(st.db, cid)]),
                        !.cand[cid].location_id = rink_id],
                     rink_id, cid, t)]

\* promote_verified without the lookup of the adopted identifier: a
\* location is created each time the peer matches
AdoptUnchecked(st, cid, adopted_id, existing, t) ==
    Create(st, cid, adopted_id, TRUE, t)

\* promote_verified, the peer matched: existing is the position of the
\* location that already has the peer's identifier, or 0
Adopt(st, cid, adopted_id, existing, t) ==
    IF existing # 0 THEN LinkTo(st, cid, st.db.loc[existing].rink_id, t)
    ELSE Create(st, cid, adopted_id, TRUE, t)

\* promote_verified, no location matched: st_match is the position of the
\* matching peer row, or 0
PromoteUnmatched(st, cid, skatetrax_locations, st_match, t) ==
    IF st_match # 0
    THEN Adopt(st, cid, skatetrax_locations[st_match].rink_id,
               LocationIndex(st.db.loc, skatetrax_locations[st_match].rink_id), t)
    ELSE Create(st, cid, FreshUuid(st.db.loc), FALSE, t)

\* promote_verified with the match set aside: the candidate is promoted as
\* if no location matched
PromoteUnmatchedAlways(st, cid, skatetrax_locations, match, t) ==
    PromoteUnmatched(st, cid, skatetrax_locations,
                     _find_skatetrax_match(skatetrax_locations,
                                           st.db.cand[cid].name, st.db.cand[cid].street,
                                           st.db.cand[cid].city, st.db.cand[cid].state),
                     t)

\* promote_verified, a candidate with a zip: match is the position of the
\* matching location, or 0
PromoteMatched(st, cid, skatetrax_locations, match, t) ==
    IF match # 0 THEN LinkTo(st, cid, st.db.loc[match].rink_id, t)
    ELSE PromoteUnmatched(st, cid, skatetrax_locations,
                          _find_skatetrax_match(skatetrax_locations,
                                                st.db.cand[cid].name, st.db.cand[cid].street,
                                                st.db.cand[cid].city, st.db.cand[cid].state),
                          t)

\* promote_verified, one candidate of the loop, promoted whatever its zip
PromoteWhateverZip(st, cid, skatetrax_locations, t) ==
    PromoteMatched(st, cid, skatetrax_locations,
                   _find_matching_location(st.db.loc,
                                           st.db.cand[cid].name, st.db.cand[cid].street,
                                           st.db.cand[cid].city, st.db.cand[cid].state),
                   t)

\* promote_verified, one candidate of the loop
PromoteOne(st, cid, skatetrax_locations, t) ==
    IF ~Truthy(st.db.cand[cid].zip)
    THEN [st EXCEPT !.stats.skipped_no_zip = @ + 1]
    ELSE PromoteMatched(st, cid, skatetrax_locations,
                        _find_matching_location(st.db.loc,
                                                st.db.cand[cid].name, st.db.cand[cid].street,
                                                st.db.cand[cid].city, st.db.cand[cid].state),
                        t)

RECURSIVE PromoteEach(_, _, _, _, _)
PromoteEach(st, ids, skatetrax_locations, t, k) ==
    IF k > Len(ids) THEN st
    ELSE PromoteEach(PromoteOne(st, ids[k], skatetrax_locations, t),
                     ids, skatetrax_locations, t, k + 1)

\* promote_verified with a query that takes the verified candidates whether
\* or not they are linked
VerifiedIds(db) ==
    {i \in 1..Len(db.cand) :
        db.cand[i].verification_status \in {"geocode_match", "source_verified"}}

\* promote_verified, the query: the verified candidates not yet linked
PromotableIds(db) ==
    {i \in 1..Len(db.cand) :
        /\ db.cand[i].verification_status \in {"geocode_match", "source_verified"}
        /\ db.cand[i].location_id = NULL}

\* promote_verified (phase 1)
promote_verified(db, skatetrax_locations, t) ==
    PromoteEach([stats |-> Phase1Stats0, db |-> db], Ascending(PromotableIds(db)),
                skatetrax_locations, t, 1)

\* int(text) for a text of decimal digits
RECURSIVE DigitsToInt(_)
DigitsToInt(text) ==
    IF text = "" THEN 0
    ELSE 10 * DigitsToInt(SubSeq(text, 1, Len(text) - 1))
         + (IndexIn(CharAt(text, Len(text)), DigitChars) - 1)

\* the length of the run of digits at the start of text
RECURSIVE DigitRun(_)
DigitRun(text) ==
    IF text # "" /\ IsDigitCh(CharAt(text, 1)) THEN 1 + DigitRun(SubSeq(text, 2, Len(text)))
    ELSE 0

\* the digits at the start of rest when a colon follows them, else ""
DigitsBeforeColon(rest, n) ==
    IF n > 0 /\ n < Len(rest) /\ CharAt(rest, n + 1) = ":" THEN SubSeq(rest, 1, n) ELSE ""

\* r'Matches candidate (\d+):' matched at position i of text: the digits
\* captured, or "" when it does not match there
CapturedAt(text, i) ==
    IF /\ i + 17 <= Len(text)
       /\ SubSeq(text, i, i + 17) = "Matches candidate "
    THEN DigitsBeforeColon(SubSeq(text, i + 18, Len(text)),
                           DigitRun(SubSeq(text, i + 18, Len(text))))
    ELSE ""

\* the capture at the leftmost position i where the pattern matches
LeftmostCapture(text, i) == IF i = 0 THEN 0 ELSE DigitsToInt(CapturedAt(text, i))

\* re.search(r'Matches candidate (\d+):', text): the number captured by the
\* leftmost match, or 0 when there is no match
MatchesCandidate(text) ==
    LET At(i) == CapturedAt(text, i) # ""
    IN LeftmostCapture(text, FirstWhere([i \in 1..Len(text) |-> i], At))

\* the texts the rejections of duplicates can carry
KnownMatchTexts ==
    {"Matches candidate " \o ToString(i) \o ": " \o n : i \in 1..4, n \in KnownNames}

MatchesCandidateTable == [t \in KnownMatchTexts |-> MatchesCandidate(t)]

MatchesCandidateOf(text) == Lookup(MatchesCandidateTable, text, MatchesCandidate(text))

\* link_duplicates linking a duplicate to the first location when its
\* primary has none
LinkToSomeLocation(st, cid, primary_id, t) ==
    IF primary_id = 0
    THEN [st EXCEPT !.stats.parse_failed = @ + 1]
    ELSE IF primary_id > Len(st.db.cand) \/ ~Truthy(st.db.cand[primary_id].location_id)
    THEN IF st.db.loc = << >>
         THEN [st EXCEPT !.stats.primary_not_promoted = @ + 1]
         ELSE [stats |-> [st.stats EXCEPT !.linked = @ + 1],
               db |-> WithLink([st.db EXCEPT !.cand[cid].location_id =
                                                 st.db.loc[1].rink_id],
                               st.db.loc[1].rink_id, cid, t)]
    ELSE [stats |-> [st.stats EXCEPT !.linked = @ + 1],
          db |-> WithLink([st.db EXCEPT !.cand[cid].location_id =
                                            st.db.cand[primary_id].location_id],
                          st.db.cand[primary_id].location_id, cid, t)]

\* link_duplicates, the candidate's rejection names primary_id (0: none)
LinkToPrimary(st, cid, primary_id, t) ==
    IF primary_id = 0
    THEN [st EXCEPT !.stats.parse_failed = @ + 1]
    ELSE IF primary_id > Len(st.db.cand) \/ ~Truthy(st.db.cand[primary_id].location_id)
    THEN [st EXCEPT !.stats.primary_not_promoted = @ + 1]
    ELSE [stats |-> [st.stats EXCEPT !.linked = @ + 1],
          db |-> WithLink([st.db EXCEPT !.cand[cid].location_id =
                                            st.db.cand[primary_id].location_id],
                          st.db.cand[primary_id].location_id, cid, t)]

\* link_duplicates, the candidate's rejection row is at position rejection
\* (0: there is none)
LinkByRejection(st, cid, rejection, t) ==
    IF rejection = 0 \/ ~Truthy(st.db.rej[rejection].raw_parse_error)
    THEN [st EXCEPT !.stats.parse_failed = @ + 1]
    ELSE LinkToPrimary(st, cid, MatchesCandidateOf(st.db.rej[rejection].raw_parse_error), t)

\* link_duplicates, one candidate of the loop
LinkDuplicateOne(st, cid, t) ==
    LET IsDupRejection(i) ==
            /\ st.db.rej[i].raw_entry_id = st.db.cand[cid].raw_entry_id
            /\ st.db.rej[i].rejection_reason \in
                  {"duplicate_address_exact", "suspected_duplicate"}
    IN LinkByRejection(st, cid, FirstWhere([i \in 1..Len(st.db.rej) |-> i], IsDupRejection), t)

RECURSIVE LinkDuplicateEach(_, _, _, _)
LinkDuplicateEach(st, ids, t, k) ==
    IF k > Len(ids) THEN st
    ELSE LinkDuplicateEach(LinkDuplicateOne(st, ids[k], t), ids, t, k + 1)

\* link_duplicates (phase 2)
link_duplicates(db, t) ==
    LinkDuplicateEach([stats |-> [parse_failed |-> 0, primary_not_promoted |-> 0,
                                  linked |-> 0],
                       db |-> db],
                      Ascending({i \in 1..Len(db.cand) :
                                   /\ db.cand[i].verification_status = "duplicate"
                                   /\ db.cand[i].location_id = NULL}),
                      t, 1)

\* link_wiki_entries, one candidate, marked verified when it is linked
LinkWikiVerifying(st, cid, match, t) ==
    IF match # 0
    THEN [stats |-> [st.stats EXCEPT !.linked = @ + 1],
          db |-> WithLink([st.db EXCEPT !.cand[cid].location_id = st.db.loc[match].rink_id,
                                        !.cand[cid].verification_status = "source_verified"],
                          st.db.loc[match].rink_id, cid, t)]
    ELSE [st EXCEPT !.stats.no_match = @ + 1]

\* link_wiki_entries, one candidate: match is the position of the matching
\* location, or 0
LinkWikiMatched(st, cid, match, t) ==
    IF match # 0
    THEN [stats |-> [st.stats EXCEPT !.linked = @ + 1],
          db |-> WithLink([st.db EXCEPT !.cand[cid].location_id = st.db.loc[match].rink_id],
                          st.db.loc[match].rink_id, cid, t)]
    ELSE [st EXCEPT !.stats.no_match = @ + 1]

\* link_wiki_entries, one candidate of the loop
LinkWikiOne(st, cid, t) ==
    LinkWikiMatched(st, cid,
                    _find_matching_location(st.db.loc,
                                            st.db.cand[cid].name, st.db.cand[cid].street,
                                            st.db.cand[cid].city, st.db.cand[cid].state),
                    t)

RECURSIVE LinkWikiEach(_, _, _, _)
LinkWikiEach(st, ids, t, k) ==
    IF k > Len(ids) THEN st
    ELSE LinkWikiEach(LinkWikiOne(st, ids[k], t), ids, t, k + 1)

\* link_wiki_entries (phase 3)
link_wiki_entries(db, t) ==
    LinkWikiEach([stats |-> [linked |-> 0, no_match |-> 0], db |-> db],
                 Ascending({i \in 1..Len(db.cand) :
                              /\ db.cand[i].verification_status = "unverified"
                              /\ db.cand[i].location_id = NULL
                              /\ ~HasStreet(db.cand[i])}),
                 t, 1)

\* run_promotion, the summary of the three phases
PromotionResult(s1, s2, s3) ==
    [stats |-> [phase1_new_locations |-> s1.stats.promoted_new,
                phase1_adopted_skatetrax_uuid |-> s1.stats.adopted_skatetrax_uuid,
                phase1_linked_existing |-> s1.stats.promoted_existing,
                phase1_skipped_no_zip |-> s1.stats.skipped_no_zip,
                phase2_duplicates_linked |-> s2.stats.linked,
                phase2_primary_not_promoted |-> s2.stats.primary_not_promoted,
                phase2_parse_failed |-> s2.stats.parse_failed,
                phase3_wiki_linked |-> s3.stats.linked,
                phase3_wiki_no_match |-> s3.stats.no_match,
                total_locations |-> Len(s3.db.loc)],
     db |-> s3.db]

\* run_promotion after phase 2
Phase3(s1, s2, t) == PromotionResult(s1, s2, link_wiki_entries(s2.db, t))

\* run_promotion after phase 1
Phase2(s1, t) == Phase3(s1, link_duplicates(s1.db, t), t)

\* run_promotion with the duplicates linked before the verified candidates
\* are promoted
PromotionLinkingFirst(db, skatetrax_locations, t) ==
    LET s2 == link_duplicates(db, t)
        s1 == promote_verified(s2.db, skatetrax_locations, t)
    IN Phase3(s1, [s2 EXCEPT !.db = s1.db], t)

\* run_promotion: the three phases in order
run_promotion(db, skatetrax_locations, t) ==
    Phase2(promote_verified(db, skatetrax_locations, t), t)

\* ------------------------------------------------------------------------
\* pipeline/promoter.py: the commits of the three loops
\* ------------------------------------------------------------------------
\* BATCH_SIZE, 100 in the source, scaled down with the tables
BATCH_SIZE == 2

\* promote_verified, the iteration of candidate cid ends with `continue`:
\* the candidate has no zip, or the peer's identifier is that of a
\* location that exists
Phase1Continues(st, cid, skatetrax_locations) ==
    LET c == st.db.cand[cid]
        st_match == _find_skatetrax_match(skatetrax_locations, c.name, c.street,
                                          c.city, c.state)
    IN \/ ~Truthy(c.zip)
       \/ /\ _find_matching_location(st.db.loc, c.name, c.street, c.city, c.state) = 0
          /\ st_match # 0
          /\ LocationIndex(st.db.loc, skatetrax_locations[st_match].rink_id) # 0

\* promote_verified: what each iteration of the loop does to the session
\* and whether it reaches the check of i % BATCH_SIZE
Phase1Log(db, skatetrax_locations, t) ==
    LET ids == Ascending(PromotableIds(db))
        After(k) == PromoteEach([stats |-> Phase1Stats0, db |-> db], SubSeq(ids, 1, k),
                                skatetrax_locations, t, 1)
    IN [k \in 1..Len(ids) |->
          [db |-> After(k).db,
           changed |-> After(k).db # After(k - 1).db,
           continued |-> Phase1Continues(After(k - 1), ids[k], skatetrax_locations)]]

\* link_duplicates: the like; an iteration that links nothing ends with
\* `continue`
Phase2Log(db, t) ==
    LET ids == Ascending({i \in 1..Len(db.cand) :
                            /\ db.cand[i].verification_status = "duplicate"
                            /\ db.cand[i].location_id = NULL})
        After(k) == LinkDuplicateEach([stats |-> [parse_failed |-> 0, primary_not_promoted |-> 0,
                                                  linked |-> 0],
                                       db |-> db],
                                      SubSeq(ids, 1, k), t, 1)
    IN [k \in 1..Len(ids) |->
          [db |-> After(k).db,
           changed |-> After(k).db # After(k - 1).db,
           continued |-> After(k).stats.linked = After(k - 1).stats.linked]]

\* link_wiki_entries: the like; every iteration reaches the check
Phase3Log(db, t) ==
    LET ids == Ascending({i \in 1..Len(db.cand) :
                            /\ db.cand[i].verification_status = "unverified"
                            /\ db.cand[i].location_id = NULL
                            /\ ~HasStreet(db.cand[i])})
        After(k) == LinkWikiEach([stats |-> [linked |-> 0, no_match |-> 0], db |-> db],
                                 SubSeq(ids, 1, k), t, 1)
    IN [k \in 1..Len(ids) |->
          [db |-> After(k).db,
           changed |-> After(k).db # After(k - 1).db,
           continued |-> FALSE]]

\* the loop commits at the end of iteration i
CommitsAt(log, i) == ~log[i].continued /\ i % BATCH_SIZE = 0

\* the last iteration up to i at whose end the loop committed, or 0
LastCommit(log, i) ==
    IF \E j \in 1..i : CommitsAt(log, j)
    THEN CHOOSE j \in 1..i : CommitsAt(log, j) /\ \A h \in (j + 1)..i : ~CommitsAt(log, h)
    ELSE 0

\* the candidates whose changes are in the session and not committed at
\* the end of iteration i
Uncommitted(log, i) == {j \in (LastCommit(log, i) + 1)..i : log[j].changed}

\* the logs of the three loops of run_promotion, in order
PromotionLogs(db, skatetrax_locations, t) ==
    LET s1 == promote_verified(db, skatetrax_locations, t)
        s2 == link_duplicates(s1.db, t)
    IN <<[log |-> Phase1Log(db, skatetrax_locations, t), before |-> db],
         [log |-> Phase2Log(s1.db, t), before |-> s1.db],
         [log |-> Phase3Log(s2.db, t), before |-> s2.db]>>

\* run_promotion cancelled at the end of iteration i of a loop, before the
\* commit that iteration may make: the database holds what was committed
Cancelled(logs, phase, i) ==
    IF LastCommit(logs[phase].log, i - 1) = 0 THEN logs[phase].before
    ELSE logs[phase].log[LastCommit(logs[phase].log, i - 1)].db

\* ------------------------------------------------------------------------
\* pipeline/demoter.py
\* ------------------------------------------------------------------------
\* s contains sub
Contains(s, sub) ==
    \E i \in 1..(Len(s) + 1) : i + Len(sub) - 1 <= Len(s) /\ SubSeq(s, i, i + Len(sub) - 1) = sub

\* _find_location by name: exact is the position of the first location of
\* that name, partial the positions of those whose name contains it
ByName(exact, partial) ==
    IF exact # 0 THEN exact
    ELSE IF Cardinality(partial) = 1 THEN CHOOSE i \in partial : TRUE
    ELSE 0

\* _find_location: the position in loctab of the location, or 0 (not
\* found, ambiguous, or neither name nor rink_id given).  ILIKE compares
\* without regard to case.
_find_location(loctab, name, rink_id) ==
    LET Exact(i) == MapLower(loctab[i].rink_name) = MapLower(name)
    IN IF Truthy(rink_id) THEN LocationIndex(loctab, rink_id)
       ELSE IF Truthy(name)
       THEN ByName(FirstWhere([i \in 1..Len(loctab) |-> i], Exact),
                   {i \in 1..Len(loctab) :
                      Contains(MapLower(loctab[i].rink_name), MapLower(name))})
       ELSE 0

\* demote_location removing the row it was asked to retire
DemotedByDeleting(db, loc, status) ==
    IF loc = 0 THEN [error |-> TRUE, db |-> db]
    ELSE [error |-> FALSE,
          db |-> [db EXCEPT !.loc = SubSeq(@, 1, loc - 1) \o SubSeq(@, loc + 1, Len(@))]]

\* demote_location once the location is looked up: loc is its position, or 0
Demoted(db, loc, status) ==
    IF loc = 0 THEN [error |-> TRUE, db |-> db]
    ELSE [error |-> FALSE, db |-> [db EXCEPT !.loc[loc].rink_status = status]]

\* demote_location setting any status it is given
DemoteToAnyStatus(db, name, rink_id, status) ==
    Demoted(db, _find_location(db.loc, name, rink_id), status)

\* demote_location
demote_location(db, name, rink_id, status) ==
    IF status \notin VALID_STATUSES THEN [error |-> TRUE, db |-> db]
    ELSE Demoted(db, _find_location(db.loc, name, rink_id), status)

\* the table without its row at position i
RemoveAt(tab, i) == SubSeq(tab, 1, i - 1) \o SubSeq(tab, i + 1, Len(tab))

\* a NULL timestamp
NULLT == -1

\* merge_locations, one link, with the target's window left as it is
MovedLinkUnwidened(ls, li, ti, into_id) ==
    IF ti # 0 THEN RemoveAt(ls, li)
    ELSE [ls EXCEPT ![li].location_id = into_id]

\* merge_locations, one link of the source location: li is its position,
\* ti the position of the target's link of the same source, or 0
MovedLink(ls, li, ti, into_id) ==
    IF ti # 0
    THEN RemoveAt([ls EXCEPT
                     ![ti].first_seen_at =
                         IF ls[li].first_seen_at # NULLT
                            /\ (@ = NULLT \/ ls[li].first_seen_at < @)
                         THEN ls[li].first_seen_at ELSE @,
                     ![ti].last_seen_at =
                         IF ls[li].last_seen_at # NULLT
                            /\ (@ = NULLT \/ ls[li].last_seen_at > @)
                         THEN ls[li].last_seen_at ELSE @],
                  li)
    ELSE [ls EXCEPT ![li].location_id = into_id]

\* merge_locations, the loop over the source's links: sources are the
\* sources of the links still to be moved.  r = [ls, moved, updated].
RECURSIVE MoveLinks(_, _, _, _)
\* one link and the rest of the loop
MoveOne(r, sources, from_id, into_id, li, ti) ==
    MoveLinks([ls |-> MovedLink(r.ls, li, ti, into_id),
               moved |-> IF ti = 0 THEN r.moved + 1 ELSE r.moved,
               updated |-> IF ti # 0 THEN r.updated + 1 ELSE r.updated],
              Tail(sources), from_id, into_id)

MoveLinks(r, sources, from_id, into_id) ==
    IF sources = << >> THEN r
    ELSE MoveOne(r, sources, from_id, into_id,
                 LinkIndex(r.ls, from_id, Head(sources)),
                 LinkIndex(r.ls, into_id, Head(sources)))

\* the sources of the links of a location, in the order of the table
SourcesOf(ls, link_ids) == [k \in 1..Len(link_ids) |-> ls[link_ids[k]].source_id]

\* merge_locations with the alias put on the source location
AliasOnSource(al, from_id, into_id, source_name, target_name, t) ==
    IF source_name # target_name
    THEN Append(al, [location_id |-> from_id,
                     alias_name |-> source_name,
                     effective_until |-> t,
                     notes |-> "Merged from " \o from_id])
    ELSE al

\* merge_locations, the alias that keeps the source's name when the two
\* names differ
WithAlias(al, from_id, into_id, source_name, target_name, t) ==
    IF source_name # target_name
    THEN Append(al, [location_id |-> into_id,
                     alias_name |-> source_name,
                     effective_until |-> t,
                     notes |-> "Merged from " \o from_id])
    ELSE al

\* merge_locations with an update that takes the candidates of the target
RepointedFromTarget(candtab, from_id, into_id) ==
    [i \in 1..Len(candtab) |->
       IF candtab[i].location_id = into_id
       THEN [candtab[i] EXCEPT !.location_id = from_id]
       ELSE candtab[i]]

\* merge_locations, the update of the candidates of the source location
Repointed(candtab, from_id, into_id) ==
    [i \in 1..Len(candtab) |->
       IF candtab[i].location_id = from_id
       THEN [candtab[i] EXCEPT !.location_id = into_id]
       ELSE candtab[i]]

\* merge_locations once both locations are found at source_loc and
\* target_loc: moved is what the loop over the links left
Merged(db, from_id, into_id, t, source_loc, target_loc, moved) ==
    [error |-> FALSE,
     db |-> [db EXCEPT
               !.ls = moved.ls,
               !.al = WithAlias(@, from_id, into_id, db.loc[source_loc].rink_name,
                                db.loc[target_loc].rink_name, t),
               !.cand = Repointed(@, from_id, into_id),
               !.loc[source_loc].rink_status = "merged"],
     sources_moved |-> moved.moved,
     sources_updated |-> moved.updated,
     candidates_repointed |->
         Cardinality({i \in 1..Len(db.cand) : db.cand[i].location_id = from_id}),
     alias_created |-> db.loc[source_loc].rink_name # db.loc[target_loc].rink_name]

\* merge_locations once the two locations are looked up
MergeFound(db, from_id, into_id, t, source_loc, target_loc) ==
    IF source_loc = 0 \/ target_loc = 0 THEN [error |-> TRUE, db |-> db]
    ELSE Merged(db, from_id, into_id, t, source_loc, target_loc,
                MoveLinks([ls |-> db.ls, moved |-> 0, updated |-> 0],
                          SourcesOf(db.ls, Ascending({i \in 1..Len(db.ls) :
                                                        db.ls[i].location_id = from_id})),
                          from_id, into_id))

\* merge_locations at time t
merge_locations(db, from_id, into_id, t) ==
    IF from_id = into_id THEN [error |-> TRUE, db |-> db]
    ELSE MergeFound(db, from_id, into_id, t,
                    LocationIndex(db.loc, from_id), LocationIndex(db.loc, into_id))

\* rename_location changing the name and keeping no alias
RenamedKeepingNoAlias(db, loc, new_name, t) ==
    IF loc = 0 THEN [error |-> TRUE, db |-> db]
    ELSE [error |-> FALSE, db |-> [db EXCEPT !.loc[loc].rink_name = new_name]]

\* rename_location once the location is looked up: loc is its position, or 0
Renamed(db, loc, new_name, t) ==
    IF loc = 0 THEN [error |-> TRUE, db |-> db]
    ELSE [error |-> FALSE,
          db |-> [db EXCEPT
                    !.al = IF db.loc[loc].rink_name # new_name
                           THEN Append(@, [location_id |-> db.loc[loc].rink_id,
                                           alias_name |-> db.loc[loc].rink_name,
                                           effective_until |-> t,
                                           notes |-> "Renamed to " \o new_name])
                           ELSE @,
                    !.loc[loc].rink_name = new_name]]

\* rename_location at time t
rename_location(db, name, rink_id, new_name, t) ==
    IF ~Truthy(new_name) THEN [error |-> TRUE, db |-> db]
    ELSE Renamed(db, _find_location(db.loc, name, rink_id), new_name, t)

\* ------------------------------------------------------------------------
\* pipeline/ice_time_sync.py
\* ------------------------------------------------------------------------
\* sync_ice_time, one rink of the peer: location is the position of the
\* location of that id (0: none), existing_link that of its skatetrax link
\* (0: none), seen the time it was last skated at
Synced(ls, rink_id, seen, location, existing_link) ==
    IF location = 0 THEN ls
    ELSE IF existing_link # 0
    THEN [ls EXCEPT ![existing_link].last_seen_at = seen,
                    ![existing_link].is_present = TRUE]
    ELSE Append(ls, [source_id |-> SourceId("skatetrax"),
                     location_id |-> rink_id,
                     candidate_id |-> 0,
                     first_seen_at |-> seen,
                     last_seen_at |-> seen,
                     is_present |-> TRUE])

\* sync_ice_time, the loop: rink_rows are the (rink_id, last_skated) rows of
\* the peer's ice_time table, one per rink_id.
\* r = [ls, confirmed, missing_from_directory].
RECURSIVE SyncEach(_, _, _, _, _)
\* one rink and the rest of the loop
SyncOne(r, loctab, rink_rows, t, k, location) ==
    SyncEach([ls |-> Synced(r.ls, rink_rows[k][1],
                            IF rink_rows[k][2] # NULLT THEN rink_rows[k][2] ELSE t,
                            location,
                            LinkIndex(r.ls, rink_rows[k][1], SourceId("skatetrax"))),
              confirmed |-> IF location # 0 THEN r.confirmed + 1 ELSE r.confirmed,
              missing_from_directory |-> IF location = 0 THEN r.missing_from_directory + 1
                                         ELSE r.missing_from_directory],
             loctab, rink_rows, t, k + 1)

SyncEach(r, loctab, rink_rows, t, k) ==
    IF k > Len(rink_rows) THEN r
    ELSE SyncOne(r, loctab, rink_rows, t, k, LocationIndex(loctab, rink_rows[k][1]))

\* sync_ice_time, the summary
SyncResult(db, rink_rows, r) ==
    [stats |-> [confirmed |-> r.confirmed,
                missing_from_directory |-> r.missing_from_directory,
                total_rinks_in_ice_time |-> Len(rink_rows)],
     db |-> [db EXCEPT !.ls = r.ls]]

sync_ice_time(db, rink_rows, t) ==
    SyncResult(db, rink_rows,
               SyncEach([ls |-> db.ls, confirmed |-> 0, missing_from_directory |-> 0],
                        db.loc, rink_rows, t, 1))

\* ------------------------------------------------------------------------
\* pipeline/skatetrax_push.py
\* ------------------------------------------------------------------------
\* _record_alias: the alias table after the call
_record_alias(al, location_id, alias_name, data_source) ==
    IF \E i \in 1..Len(al) :
          al[i].location_id = location_id /\ al[i].alias_name = alias_name
    THEN al
    ELSE Append(al, [location_id |-> location_id,
                     alias_name |-> alias_name,
                     effective_until |-> NULLT,
                     notes |-> "auto: push name mismatch (source: "
                                  \o data_source \o ")"])

PushStats0 ==
    [skipped_no_zip |-> 0, updated |-> 0, icemaker_active |-> 0, already_in_skatetrax |-> 0,
     inserted |-> 0, aliases_created |-> 0, errors |-> 0]

\* push_locations, the query: the active locations.  The locations of the
\* model are of one town, so the order by state and city is that of the
\* table.
ActiveLocations(loctab) ==
    LET Active(l) == l.rink_status = "active"
    IN SelectSeq(loctab, Active)

\* push_locations, im_data: the active locations that have a zip.  The
\* locations of the model are in the US (promoter.py sets rink_country to
\* the candidate's country or 'US').
ImData(loctab) ==
    LET HasZip(l) == Truthy(l.rink_zip)
        rows == SelectSeq(ActiveLocations(loctab), HasZip)
    IN [k \in 1..Len(rows) |->
          [rink_id |-> rows[k].rink_id,
           rink_name |-> rows[k].rink_name,
           rink_address |-> IF Truthy(rows[k].rink_address) THEN rows[k].rink_address ELSE "",
           rink_city |-> rows[k].rink_city,
           rink_state |-> rows[k].rink_state,
           rink_zip |-> rows[k].rink_zip,
           data_source |-> rows[k].data_source,
           rink_country |-> "US"]]

\* push_locations, name_differs
name_differs(st_name, im_name) ==
    /\ Truthy(st_name)
    /\ Truthy(im_name)
    /\ MapLower(Strip(st_name)) # MapLower(Strip(im_name))

\* the position in the peer's table of the row of that id, or 0
PeerIndex(peer, rink_id) ==
    IF \E i \in 1..Len(peer) : peer[i].rink_id = rink_id
    THEN CHOOSE i \in 1..Len(peer) : peer[i].rink_id = rink_id
    ELSE 0

\* push_locations overwriting the peer's name of a row it updates
PushExistingWithName(st, entry, e, differs, dry_run) ==
    IF dry_run
    THEN [st EXCEPT !.stats.updated = @ + 1]
    ELSE [st EXCEPT !.peer[e].rink_name = entry.rink_name,
                    !.peer[e].rink_address = entry.rink_address,
                    !.stats.updated = @ + 1]

\* push_locations, an entry whose id the peer has, at position e.
\* st = [peer, queue, stats].
PushExisting(st, entry, e, differs, dry_run) ==
    IF dry_run
    THEN [st EXCEPT !.stats.updated = @ + 1,
                    !.stats.aliases_created = IF differs THEN @ + 1 ELSE @]
    ELSE [st EXCEPT !.peer[e].rink_address = entry.rink_address,
                    !.peer[e].rink_city = entry.rink_city,
                    !.peer[e].rink_state = entry.rink_state,
                    !.peer[e].rink_country = entry.rink_country,
                    !.peer[e].rink_zip = entry.rink_zip,
                    !.stats.updated = @ + 1,
                    !.queue = IF differs
                              THEN Append(@, <<entry.rink_id, entry.rink_name,
                                               entry.data_source>>)
                              ELSE @]

\* push_locations, an entry whose id is new to the peer
PushNew(st, entry, dry_run) ==
    IF dry_run
    THEN [st EXCEPT !.stats.inserted = @ + 1]
    ELSE [st EXCEPT !.peer = Append(@, [rink_id |-> entry.rink_id,
                                        rink_name |-> entry.rink_name,
                                        rink_address |-> entry.rink_address,
                                        rink_city |-> entry.rink_city,
                                        rink_state |-> entry.rink_state,
                                        rink_zip |-> entry.rink_zip,
                                        data_source |-> entry.data_source,
                                        rink_country |-> entry.rink_country,
                                        rink_url |-> NULL,
                                        rink_phone |-> NULL,
                                        rink_tz |-> NULL]),
                    !.stats.inserted = @ + 1]

\* push_locations, one entry of the loop: existing is the peer's table as
\* it was read before the loop
PushEntry(st, existing, entry, dry_run) ==
    IF PeerIndex(existing, entry.rink_id) # 0
    THEN PushExisting(st, entry, PeerIndex(existing, entry.rink_id),
                      name_differs(existing[PeerIndex(existing, entry.rink_id)].rink_name,
                                   entry.rink_name),
                      dry_run)
    ELSE PushNew(st, entry, dry_run)

RECURSIVE PushEach(_, _, _, _, _)
PushEach(st, existing, im_data, dry_run, k) ==
    IF k > Len(im_data) THEN st
    ELSE PushEach(PushEntry(st, existing, im_data[k], dry_run),
                  existing, im_data, dry_run, k + 1)

\* push_locations, the aliases of the queue recorded: r = [al, created]
RECURSIVE RecordEach(_, _, _)
RecordEach(r, queue, k) ==
    IF k > Len(queue) THEN r
    ELSE RecordEach([al |-> _record_alias(r.al, queue[k][1], queue[k][2], queue[k][3]),
                     created |-> IF _record_alias(r.al, queue[k][1], queue[k][2],
                                                  queue[k][3]) # r.al
                                 THEN r.created + 1 ELSE r.created],
                    queue, k + 1)

\* push_locations, the end: st is the state after the loop, rec the
\* aliases recorded
Pushed(db, st, rec) ==
    [stats |-> [st.stats EXCEPT !.aliases_created = rec.created],
     db |-> [db EXCEPT !.al = rec.al],
     peer |-> st.peer]

\* push_locations after the loop: the queue is recorded unless it is empty
\* or the run is dry
AfterPush(db, st, dry_run) ==
    IF st.queue # << >> /\ ~dry_run
    THEN Pushed(db, st, RecordEach([al |-> db.al, created |-> st.stats.aliases_created],
                                   st.queue, 1))
    ELSE Pushed(db, st, [al |-> db.al, created |-> st.stats.aliases_created])

\* push_locations: connected tells whether the peer's database is
\* configured, reachable and has its locations table
push_locations(db, peer, dry_run, connected) ==
    IF ~connected THEN [stats |-> PushStats0, db |-> db, peer |-> peer]
    ELSE AfterPush(db,
                   PushEach([stats |-> [PushStats0 EXCEPT
                                          !.icemaker_active = Len(ActiveLocations(db.loc)),
                                          !.skipped_no_zip =
                                              Len(ActiveLocations(db.loc))
                                              - Len(ImData(db.loc)),
                                          !.already_in_skatetrax = Len(peer)], peer |-> peer,
                             queue |-> << >>],
                            peer, ImData(db.loc), dry_run, 1),
                   dry_run)

\* ------------------------------------------------------------------------
\* run_pipeline.py
\* ------------------------------------------------------------------------
\* _run_all, source_names: the enabled sources but skatetrax, by id; the
\* seeded sources are enabled
EnabledSources == SelectSeq(SEED_SOURCES, LAMBDA s : s # "skatetrax")

\* _run_all, the loop over the sources.  fetches[s] is what the fetcher of
\* s does: it returns rows or raises, and run_source and _run_all catch
\* nothing it raises.  r = [db, sources_run, raised].
RECURSIVE RunSources(_, _, _, _, _, _, _)
RunSources(r, names, fetches, scrape_only, geocode, limit, hit) ==
    IF names = << >> THEN r
    ELSE IF fetches[Head(names)].raised THEN [r EXCEPT !.raised = TRUE]
    ELSE RunSources([r EXCEPT
                       !.db = run_source(@, Head(names), scrape_only, geocode, limit,
                                         fetches[Head(names)].rows,
                                         [k \in 1..Len(fetches[Head(names)].rows) |-> hit]).db,
                       !.sources_run = Append(@, Head(names))],
                    Tail(names), fetches, scrape_only, geocode, limit, hit)

\* _run_all after the loop: geocode_pending and run_promotion, unless an
\* exception has ended the run
AfterSources(r, hit, skatetrax_locations, t) ==
    IF r.raised THEN r
    ELSE [r EXCEPT !.db = run_promotion(geocode_pending(@, NULL,
                                                        [i \in 1..Len(r.db.cand) |-> hit]).db,
                                        skatetrax_locations, t).db]

\* _run_all: the geocoder answers hit to every request
_run_all(db, fetches, scrape_only, geocode, limit, hit, skatetrax_locations, t) ==
    AfterSources(RunSources([db |-> db, raised |-> FALSE, sources_run |-> << >>],
                            EnabledSources, fetches, scrape_only, geocode, limit, hit),
                 hit, skatetrax_locations, t)

\* ------------------------------------------------------------------------
\* parsers/arena_guide.py: pull_arena_guide_content.  A request for a page
\* fails, or is answered with a page of no card, of cards that lack a name
\* or an address, or of cards of rinks.
\* ------------------------------------------------------------------------
PageOutcomes == {"failed", "empty", "incomplete", "cards"}

\* no scrape under way
NotPaging ==
    [pc |-> "idle", page_number |-> 0, consecutive_empty |-> 0, failed_pages |-> << >>,
     rinks |-> << >>, skipped_cards |-> 0, pages |-> << >>]

\* pull_arena_guide_content before its loop: pull_arena_guide_pages has
\* returned
PagingStarts == [NotPaging EXCEPT !.pc = "request"]

\* the request of the page raised RequestException
PageFailed(p) ==
    [p EXCEPT !.failed_pages = Append(@, p.page_number),
              !.consecutive_empty = @ + 1,
              !.pc = IF p.consecutive_empty + 1 >= 5 THEN "done" ELSE "request"]

\* the page has no card
PageEmpty(p) ==
    [p EXCEPT !.consecutive_empty = @ + 1,
              !.pc = IF p.consecutive_empty + 1 >= 3 THEN "done" ELSE "request"]

\* the page has a card, of a rink or without a name or an address
PageOfCards(p, outcome) ==
    [p EXCEPT !.consecutive_empty = 0,
              !.rinks = IF outcome = "cards" THEN Append(@, p.page_number) ELSE @,
              !.skipped_cards = IF outcome = "cards" THEN @ ELSE @ + 1]

\* one iteration of the loop of pull_arena_guide_content, the request
\* ending with outcome; pages keeps the outcomes so far
NextPage(p, outcome) ==
    LET q == [p EXCEPT !.page_number = @ + 1, !.pages = Append(@, outcome)]
    IN CASE outcome = "failed" -> PageFailed(q)
         [] outcome = "empty" -> PageEmpty(q)
         [] OTHER -> PageOfCards(q, outcome)

\* ------------------------------------------------------------------------
\* pipeline/geocoder.py, the rate limit.  Times are counted in ticks of the
\* clock.
\* ------------------------------------------------------------------------
TicksPerSecond == 2

\* config.NOMINATIM_RATE_LIMIT, 1.0 second
NOMINATIM_RATE_LIMIT == 1 * TicksPerSecond

\* _rate_limit: elapsed
Elapsed(t, last_request_time) == t - last_request_time

\* _rate_limit sleeping not at all
WakeAtOnce(t, elapsed) == t

\* _rate_limit: the time at which time.sleep(NOMINATIM_RATE_LIMIT - elapsed),
\* called at t, returns at the earliest
WakeAt(t, elapsed) == t + (NOMINATIM_RATE_LIMIT - elapsed)

\* the geocoder client of a process that has issued no request:
\* _last_request_time is 0.0
NoRequest ==
    [pc |-> "idle", last_request_time |-> 0, elapsed |-> 0, clock |-> 0, wake |-> 0,
     origin |-> "none", issued |-> << >>]

\* ------------------------------------------------------------------------
\* The state machine
\* ------------------------------------------------------------------------
\* A store that an earlier release of the parser has left behind: the first
\* sk8stuff row was parsed without its house number and its lookup failed.
LegacyRaw ==
    [source_id |-> SourceId("sk8stuff"),
     raw_name |-> "Rink A",
     raw_address |-> "1 M St, Ab, IL",
     raw_fingerprint |-> FingerprintOf(SourceId("sk8stuff"), "Rink A", "1 M St, Ab, IL"),
     parse_status |-> "parsed"]

LegacyCandidate ==
    [NewCandidate(1, LegacyParsed) EXCEPT !.verification_status = "geocode_failed"]

NoOp == [ok |-> TRUE, op |-> "none", args |-> << >>, out |-> << >>]

Init ==
    /\ \/ raw_entries = << >> /\ candidates = << >>
       \/ raw_entries = <<LegacyRaw>> /\ candidates = <<LegacyCandidate>>
    /\ rejected_entries = << >>
    /\ locations = << >>
    /\ location_sources = << >>
    /\ location_aliases = << >>
    /\ peer_locations = << >>
    /\ rate_limiter = NoRequest
    /\ now = 0
    /\ last = NoOp
    /\ pager = NotPaging

\* the operation op, called with args, returns out and leaves the database
\* db
Returned(op, args, ok, out, db) ==
    /\ raw_entries' = db.raw
    /\ candidates' = db.cand
    /\ rejected_entries' = db.rej
    /\ locations' = db.loc
    /\ location_sources' = db.ls
    /\ location_aliases' = db.al
    /\ last' = [ok |-> ok, op |-> op, args |-> args, out |-> out]
    /\ UNCHANGED <<now, peer_locations, rate_limiter, pager>>

\* an operation of the pipeline, called with args, leaves the database db
Commit(op, args, ok, db) == Returned(op, args, ok, << >>, db)

\* an operation of manage_locations.py returned r; the aliases are capped
Managed(op, args, r) ==
    /\ Len(r.db.al) <= MaxAlias
    /\ Returned(op, args, ~r.error, << >>, r.db)

\* merge_locations returned r: its counts are kept
MergeReturned(args, r) ==
    /\ Len(r.db.al) <= MaxAlias
    /\ Returned("merge_locations", args, ~r.error,
                IF r.error THEN << >>
                ELSE <<r.sources_moved, r.sources_updated, r.candidates_repointed,
                       r.alias_created>>,
                r.db)

\* the clock advances
Tick ==
    /\ now < MaxTime
    /\ now' = now + 1
    /\ UNCHANGED <<raw_entries, candidates, rejected_entries, locations,
                   location_sources, location_aliases, peer_locations, rate_limiter, last,
                   pager>>

\* run_pipeline.py --source <name> [--scrape-only] [--no-geocode] [--limit n]
RunSource(source_name, fetched, scrape_only, geocode, limit, answers) ==
    Commit("run_source", <<source_name, fetched, scrape_only, geocode, limit>>, TRUE,
           run_source(DB, source_name, scrape_only, geocode, limit, fetched, answers).db)

\* the candidates geocode_pending asks the geocoder about
Asked(source_name) == {i \in PendingIds(DB, source_name) : HasStreet(candidates[i])}

\* run_pipeline.py --geocode-pending [--geocode-source <name>]
GeocodePending(source_name, answers) ==
    Commit("geocode_pending", <<source_name>>, TRUE,
           geocode_pending(DB, source_name,
                           [i \in 1..Len(candidates) |->
                              IF i \in DOMAIN answers THEN answers[i] ELSE NoHit]).db)

\* run_pipeline.py --repair-failed
RepairFailed ==
    Commit("repair_geocode_failed", << >>, TRUE, repair_geocode_failed(DB).db)

\* promote_verified on its own (phase 1)
PromoteVerified(skatetrax_locations) ==
    Commit("promote_verified", <<skatetrax_locations>>, TRUE,
           promote_verified(DB, skatetrax_locations, now).db)

\* link_duplicates on its own (phase 2)
LinkDuplicates ==
    Commit("link_duplicates", << >>, TRUE, link_duplicates(DB, now).db)

\* link_wiki_entries on its own (phase 3)
LinkWikiEntries ==
    Commit("link_wiki_entries", << >>, TRUE, link_wiki_entries(DB, now).db)

\* run_pipeline.py --promote
RunPromotion(skatetrax_locations) ==
    Commit("run_promotion", <<skatetrax_locations>>, TRUE,
           run_promotion(DB, skatetrax_locations, now).db)

\* run_pipeline.py --promote, cancelled at the end of iteration i of the
\* loop of a phase
PromotionCancelled(skatetrax_locations, phase, i) ==
    LET logs == PromotionLogs(DB, skatetrax_locations, now)
    IN /\ i \in 1..Len(logs[phase].log)
       /\ Returned("run_promotion", <<skatetrax_locations, phase, i>>, FALSE,
                   Uncommitted(logs[phase].log, i - 1)
                      \cup {j \in {i} : logs[phase].log[i].changed},
                   Cancelled(logs, phase, i))

\* manage_locations.py demote
Demote(name, rink_id, status) ==
    Managed("demote_location", <<name, rink_id, status>>,
            demote_location(DB, name, rink_id, status))

\* manage_locations.py merge
Merge(from_id, into_id) ==
    MergeReturned(<<from_id, into_id>>, merge_locations(DB, from_id, into_id, now))

\* manage_locations.py rename
Rename(name, rink_id, new_name) ==
    Managed("rename_location", <<name, rink_id, new_name>>,
            rename_location(DB, name, rink_id, new_name, now))

\* run_pipeline.py --sync-ice-time
SyncIceTime(rink_rows) ==
    Commit("sync_ice_time", <<rink_rows>>, TRUE, sync_ice_time(DB, rink_rows, now).db)

\* run_pipeline.py --push-to-skatetrax [--dry-run]; the aliases are capped
Push(dry_run, connected) ==
    /\ Len(push_locations(DB, peer_locations, dry_run, connected).db.al) <= MaxAlias
    /\ location_aliases' = push_locations(DB, peer_locations, dry_run, connected).db.al
    /\ peer_locations' = push_locations(DB, peer_locations, dry_run, connected).peer
    /\ last' = [ok |-> TRUE, op |-> "push_locations", args |-> <<dry_run, connected>>,
                out |-> push_locations(DB, peer_locations, dry_run, connected).stats]
    /\ UNCHANGED <<raw_entries, candidates, rejected_entries, locations,
                   location_sources, rate_limiter, now, pager>>

\* run_pipeline.py --source all [--no-geocode]: the call returns unless an
\* exception ends it
RunAll(fetches, geocode, hit) ==
    Returned("_run_all", <<fetches, geocode>>,
             ~_run_all(DB, fetches, FALSE, geocode, 0, hit, << >>, now).raised,
             _run_all(DB, fetches, FALSE, geocode, 0, hit, << >>, now).sources_run,
             _run_all(DB, fetches, FALSE, geocode, 0, hit, << >>, now).db)

\* what a step of the geocoder client leaves alone
StoreUnchanged ==
    UNCHANGED <<raw_entries, candidates, rejected_entries, locations, location_sources,
                location_aliases, peer_locations, now, last, pager>>

\* time passes
ClockTick ==
    /\ rate_limiter.clock < MaxClock
    /\ rate_limiter' = [rate_limiter EXCEPT !.clock = @ + 1]
    /\ StoreUnchanged

\* geocode is called by the operation origin; _rate_limit: elapsed =
\* time.time() - _last_request_time
Measure(origin) ==
    /\ rate_limiter.pc = "idle"
    /\ Len(rate_limiter.issued) < MaxRequests
    /\ rate_limiter' = [rate_limiter EXCEPT
                          !.pc = "measured",
                          !.elapsed = Elapsed(rate_limiter.clock,
                                              rate_limiter.last_request_time),
                          !.origin = origin]
    /\ StoreUnchanged

\* _rate_limit: if elapsed < NOMINATIM_RATE_LIMIT, time.sleep is called
Sleep ==
    /\ rate_limiter.pc = "measured"
    /\ rate_limiter.elapsed < NOMINATIM_RATE_LIMIT
    /\ rate_limiter' = [rate_limiter EXCEPT
                          !.pc = "asleep",
                          !.wake = WakeAt(rate_limiter.clock, rate_limiter.elapsed)]
    /\ StoreUnchanged

\* time.sleep returns, not before the time asked for
Wake ==
    /\ rate_limiter.pc = "asleep"
    /\ rate_limiter.clock >= rate_limiter.wake
    /\ rate_limiter' = [rate_limiter EXCEPT !.pc = "awake"]
    /\ StoreUnchanged

\* _rate_limit: _last_request_time = time.time(), and the request goes out
Record ==
    /\ \/ rate_limiter.pc = "awake"
       \/ rate_limiter.pc = "measured" /\ rate_limiter.elapsed >= NOMINATIM_RATE_LIMIT
    /\ rate_limiter' = [rate_limiter EXCEPT
                          !.pc = "idle",
                          !.last_request_time = rate_limiter.clock,
                          !.issued = Append(@, [origin |-> rate_limiter.origin,
                                                at |-> rate_limiter.clock])]
    /\ StoreUnchanged

\* check_and_insert_raw on its own, for one upstream row of a source; the
\* table is capped
CheckAndInsertRaw(source_id, raw_name, raw_address) ==
    /\ Len(raw_entries) < MaxRows
    /\ raw_entries' = check_and_insert_raw(raw_entries, source_id, raw_name, raw_address)[1]
    /\ last' = [ok |-> check_and_insert_raw(raw_entries, source_id, raw_name,
                                            raw_address)[3],
                op |-> "check_and_insert_raw",
                args |-> <<source_id, raw_name, raw_address>>,
                out |-> FingerprintOf(source_id, raw_name, raw_address)]
    /\ UNCHANGED <<candidates, rejected_entries, locations, location_sources,
                   location_aliases, peer_locations, rate_limiter, now, pager>>

\* _add_location_source on its own, for candidate cid and the location
\* location_id; the table as it was before the call is returned
AddLocationSource(location_id, cid) ==
    /\ location_sources' = _add_location_source(DB, location_id, cid, now)
    /\ last' = [ok |-> TRUE, op |-> "_add_location_source",
                args |-> <<location_id, cid, now>>, out |-> location_sources]
    /\ UNCHANGED <<raw_entries, candidates, rejected_entries, locations,
                   location_aliases, peer_locations, rate_limiter, now, pager>>

\* the names an operator may rename a location to
NewNames == {"Rink Xy"}

\* the identifiers an operator or the peer may name: those of the
\* locations and one that no location has
LocationIds == {locations[i].rink_id : i \in 1..Len(locations)}

KnownIds == LocationIds \cup {"U9"}

PeerLists == {<< >>, PeerRows}

\* what the geocoder is asked during a run: one answer for each fetched row
AnswersFor(run, hits) ==
    IF run[3] /\ ~run[2] THEN [1..Len(Fetched(run[1])) -> hits]
    ELSE {[k \in 1..Len(Fetched(run[1])) |-> NoHit]}

\* ------------------------------------------------------------------------
\* Ingestion, verification and promotion.  A run is
\* <<source, scrape_only, geocode, limit>>.
\* ------------------------------------------------------------------------
Runs ==
    {<<"sk8stuff", FALSE, TRUE, 0>>, <<"sk8stuff", FALSE, FALSE, 0>>,
     <<"arena_guide", FALSE, TRUE, 0>>, <<"arena_guide", FALSE, TRUE, 1>>,
     <<"arena_guide", TRUE, TRUE, 0>>,
     <<"learntoskate", FALSE, FALSE, 0>>}

Answers == {NoHit, HitM, HitQ}

Next ==
    \/ \E run \in Runs :
          \E answers \in AnswersFor(run, Answers) :
             RunSource(run[1], Fetched(run[1]), run[2], run[3], run[4], answers)
    \/ \E answers \in [Asked(NULL) -> Answers] : GeocodePending(NULL, answers)
    \/ RepairFailed
    \/ PromoteVerified(<< >>)
    \/ LinkDuplicates
    \/ RunPromotion(<< >>)
    \/ \E from_id \in KnownIds : \E into_id \in KnownIds : Merge(from_id, into_id)

Spec == Init /\ [][Next]_vars

\* ------------------------------------------------------------------------
\* Curation by merging.  learntoskate and sk8stuff list two rinks of one
\* town, sk8stuff lists its rink twice, the peer reports skating at any
\* location, and the operator merges and renames.
\* ------------------------------------------------------------------------
MergeRuns ==
    {<<"learntoskate", FALSE, FALSE, 0>>,
     <<"sk8stuff", FALSE, TRUE, 0>>, <<"sk8stuff", FALSE, TRUE, 1>>}

NextMerge ==
    \/ \E run \in MergeRuns :
          RunSource(run[1], Refetched(run[1]), run[2], run[3], run[4],
                    [k \in 1..Len(Refetched(run[1])) |-> HitM])
    \/ RunPromotion(<< >>)
    \/ \E rink_id \in KnownIds : SyncIceTime(<<<<rink_id, NULLT>>>>)
    \/ Tick
    \/ \E from_id \in KnownIds : \E into_id \in KnownIds : Merge(from_id, into_id)
    \/ \E rink_id \in LocationIds : \E new_name \in NewNames : Rename(NULL, rink_id, new_name)

SpecMerge == Init /\ [][NextMerge]_vars

\* ------------------------------------------------------------------------
\* Curation by demotion.  sk8stuff, arena_guide and the wiki list one rink,
\* the peer knows it, and the operator changes the status of locations.
\* ------------------------------------------------------------------------
CurateRuns ==
    {<<"sk8stuff", FALSE, FALSE, 0>>, <<"arena_guide", FALSE, TRUE, 0>>,
     <<"fandom_wiki", FALSE, FALSE, 0>>}

\* the statuses the operator asks for, one of them not a status
DemoteStatuses == {"closed_permanently", "seasonal", "disabled", "retired"}

NextCurate ==
    \/ \E run \in CurateRuns :
          RunSource(run[1], Fetched(run[1]), run[2], run[3], run[4],
                    [k \in 1..Len(Fetched(run[1])) |-> HitM])
    \/ \E answers \in [Asked(NULL) -> {HitM}] : GeocodePending(NULL, answers)
    \/ \E peers \in PeerLists : PromoteVerified(peers)
    \/ LinkWikiEntries
    \/ \E rink_id \in KnownIds : \E status \in DemoteStatuses : Demote(NULL, rink_id, status)

SpecCurate == Init /\ [][NextCurate]_vars

\* ------------------------------------------------------------------------
\* Promotion with the wiki.  The wiki, arena_guide and sk8stuff list one
\* rink and learntoskate another one of the same town; the geocoder finds
\* the address with or without a postcode, or finds nothing.
\* ------------------------------------------------------------------------
PromoteRuns ==
    {<<"fandom_wiki", FALSE, FALSE, 0>>, <<"arena_guide", FALSE, TRUE, 0>>,
     <<"sk8stuff", FALSE, FALSE, 0>>, <<"learntoskate", FALSE, FALSE, 0>>}

PromoteAnswers == {NoHit, HitM, HitMTown}

NextPromote ==
    \/ \E run \in PromoteRuns :
          \E answers \in AnswersFor(run, PromoteAnswers) :
             RunSource(run[1], Fetched(run[1]), run[2], run[3], run[4], answers)
    \/ \E answers \in [Asked(NULL) -> PromoteAnswers] : GeocodePending(NULL, answers)
    \/ RepairFailed
    \/ PromoteVerified(<< >>)
    \/ LinkDuplicates
    \/ LinkWikiEntries
    \/ RunPromotion(<< >>)
    \/ \E from_id \in KnownIds : \E into_id \in KnownIds : Merge(from_id, into_id)

SpecPromote == Init /\ [][NextPromote]_vars

\* ------------------------------------------------------------------------
\* The directory and the peer.  sk8stuff and learntoskate list two rinks of
\* one town; the peer holds a rink of its own and may hold the sk8stuff
\* rink under the same name, a name that differs in case and blanks, or
\* another name; the operator demotes, merges and renames, and the
\* locations are pushed to the peer.
\* ------------------------------------------------------------------------
\* a row of the peer with its curated fields
PeerLocation(rink_id, rink_name, rink_address) ==
    [rink_id |-> rink_id, rink_name |-> rink_name, rink_address |-> rink_address,
     rink_city |-> "Ab", rink_state |-> "IL", rink_zip |-> "60600",
     data_source |-> "skatetrax", rink_country |-> "US", rink_url |-> "rink.example",
     rink_phone |-> "555-0100", rink_tz |-> "America/Chicago"]

\* the peer's table: empty, or a rink of its own and the sk8stuff rink
\* under the name rink_name
PeerTable(rink_name) ==
    IF rink_name = NULL THEN << >>
    ELSE <<PeerLocation("U7", "Rink Q", "7 Q Street"),
           PeerLocation("U1", rink_name, "1 M Street")>>

\* the peer's rows as the promoter loads them (promoter.py
\* _load_skatetrax_locations)
PeerList(peer) ==
    [k \in 1..Len(peer) |->
       [rink_id |-> peer[k].rink_id, rink_name |-> peer[k].rink_name,
        rink_address |-> peer[k].rink_address, rink_city |-> peer[k].rink_city,
        rink_state |-> peer[k].rink_state]]

\* the store after the two sources have run, before any promotion
Staged ==
    run_source(run_source([raw |-> << >>, cand |-> << >>, rej |-> << >>, loc |-> << >>,
                           ls |-> << >>, al |-> << >>],
                          "learntoskate", FALSE, FALSE, 0, Fetched("learntoskate"),
                          <<NoHit>>).db,
               "sk8stuff", FALSE, TRUE, 0, Fetched("sk8stuff"), <<HitM>>).db

InitDirectory ==
    /\ raw_entries = Staged.raw
    /\ candidates = Staged.cand
    /\ rejected_entries = Staged.rej
    /\ locations = << >>
    /\ location_sources = << >>
    /\ location_aliases = << >>
    /\ peer_locations \in {PeerTable(n) : n \in {NULL, "Old Rink"}}
    /\ rate_limiter = NoRequest
    /\ now = 0
    /\ last = NoOp
    /\ pager = NotPaging

NextDirectory ==
    \/ \E peers \in {<< >>, PeerList(peer_locations)} : RunPromotion(peers)
    \/ \E rink_id \in LocationIds : \E status \in {"disabled", "merged"} :
          Demote(NULL, rink_id, status)
    \/ \E from_id \in LocationIds : \E into_id \in LocationIds : Merge(from_id, into_id)
    \/ \E rink_id \in LocationIds : Rename(NULL, rink_id, "Rink Xy")
    \/ \E rink_id \in LocationIds : SyncIceTime(<<<<rink_id, NULLT>>>>)
    \/ \E dry_run \in BOOLEAN : Push(dry_run, TRUE)

SpecDirectory == InitDirectory /\ [][NextDirectory]_vars

\* ------------------------------------------------------------------------
\* The operator's calls.  Two rinks are staged and promoted; the operator
\* demotes, merges and renames, naming locations by identifier or by name,
\* rightly or wrongly.
\* ------------------------------------------------------------------------
InitManage ==
    /\ raw_entries = Staged.raw
    /\ candidates = Staged.cand
    /\ rejected_entries = Staged.rej
    /\ locations = << >>
    /\ location_sources = << >>
    /\ location_aliases = << >>
    /\ peer_locations = << >>
    /\ rate_limiter = NoRequest
    /\ now = 0
    /\ last = NoOp
    /\ pager = NotPaging

\* the locations the operator names, as <<name, rink_id>>: by identifier,
\* by the name of a rink, by a part of one rink's name, by a part of both
\* rinks' names, by a name no rink has, or not at all
Targets ==
    {<<NULL, rink_id>> : rink_id \in KnownIds}
    \cup {<<"Rink Xy", NULL>>, <<"k a", NULL>>, <<"Rink", NULL>>, <<"Zed", NULL>>,
          <<NULL, NULL>>}

\* the statuses the operator asks for, one of them not a status
ManageStatuses == {"disabled", "retired"}

\* the names the operator renames to, or none
RenameTo == {"Rink Xy", NULL}

NextManage ==
    \/ RunPromotion(<< >>)
    \/ \E target \in Targets : \E status \in ManageStatuses :
          Demote(target[1], target[2], status)
    \/ \E from_id \in KnownIds : \E into_id \in KnownIds : Merge(from_id, into_id)
    \/ \E target \in Targets : \E new_name \in RenameTo :
          Rename(target[1], target[2], new_name)

SpecManage == InitManage /\ [][NextManage]_vars

\* ------------------------------------------------------------------------
\* The push to the peer.  Two rinks are staged and promoted, with or
\* without the identifier of the peer's row; the peer holds nothing, or a
\* rink of its own and the sk8stuff rink under the same name, a name that
\* differs in case and blanks, another name or no name; the operator
\* renames and disables locations, and the locations are pushed.
\* ------------------------------------------------------------------------
PeerNames == {"Rink A", " RINK A", "Old Rink", ""}

InitPush ==
    /\ raw_entries = Staged.raw
    /\ candidates = Staged.cand
    /\ rejected_entries = Staged.rej
    /\ locations = << >>
    /\ location_sources = << >>
    /\ location_aliases = << >>
    /\ peer_locations \in {PeerTable(n) : n \in PeerNames \cup {NULL}}
    /\ rate_limiter = NoRequest
    /\ now = 0
    /\ last = NoOp
    /\ pager = NotPaging

NextPush ==
    \/ \E peers \in {<< >>, PeerList(peer_locations)} : RunPromotion(peers)
    \/ \E rink_id \in LocationIds : Demote(NULL, rink_id, "disabled")
    \/ \E rink_id \in LocationIds : Rename(NULL, rink_id, "Rink Xy")
    \/ \E dry_run \in BOOLEAN : \E connected \in BOOLEAN : Push(dry_run, connected)

SpecPush == InitPush /\ [][NextPush]_vars

\* ------------------------------------------------------------------------
\* Runs over all sources.  Each fetcher returns its rows or fails: those of
\* sk8stuff, arena_guide and fandom_wiki raise on a failed request
\* (raise_for_status), that of learntoskate returns no rows.
\* ------------------------------------------------------------------------
FetchOutcomes(source_name) ==
    {[rows |-> Fetched(source_name), raised |-> FALSE],
     IF source_name = "learntoskate" THEN [rows |-> << >>, raised |-> FALSE]
     ELSE [rows |-> << >>, raised |-> TRUE]}

AllFetches ==
    {f \in [{EnabledSources[k] : k \in 1..Len(EnabledSources)} ->
               UNION {FetchOutcomes(EnabledSources[k]) : k \in 1..Len(EnabledSources)}] :
        \A k \in 1..Len(EnabledSources) :
           f[EnabledSources[k]] \in FetchOutcomes(EnabledSources[k])}

NextAll ==
    \/ \E fetches \in AllFetches : \E geocode \in BOOLEAN : \E hit \in {NoHit, HitM} :
          RunAll(fetches, geocode, hit)
    \/ \E answers \in [Asked(NULL) -> {HitM}] : GeocodePending(NULL, answers)

SpecAll == Init /\ [][NextAll]_vars

\* ------------------------------------------------------------------------
\* The geocoder's rate limit.  The process starts at any time of the clock;
\* run_source and geocode_pending call geocode, one call at a time, and
\* time passes between any two steps.
\* ------------------------------------------------------------------------
InitRate ==
    /\ raw_entries = << >>
    /\ candidates = << >>
    /\ rejected_entries = << >>
    /\ locations = << >>
    /\ location_sources = << >>
    /\ location_aliases = << >>
    /\ peer_locations = << >>
    /\ rate_limiter \in {[NoRequest EXCEPT !.clock = c] : c \in 0..NOMINATIM_RATE_LIMIT}
    /\ now = 0
    /\ last = NoOp
    /\ pager = NotPaging

NextRate ==
    \/ ClockTick
    \/ \E origin \in {"run_source", "geocode_pending"} : Measure(origin)
    \/ Sleep
    \/ Wake
    \/ Record

SpecRate == InitRate /\ [][NextRate]_vars

\* ------------------------------------------------------------------------
\* Fingerprints on their own.  Two sources give rows whose names and
\* addresses differ in letters, in letter case, in blanks at the end, or
\* in the side of the separator a part stands on.
\* ------------------------------------------------------------------------
FingerprintSources == {1, 2}

FingerprintNames == {"Ab", "AB", "A", "A|b"}

FingerprintAddresses == {"c", "C", "c ", "b|c"}

InitFingerprint ==
    /\ raw_entries = << >>
    /\ candidates = << >>
    /\ rejected_entries = << >>
    /\ locations = << >>
    /\ location_sources = << >>
    /\ location_aliases = << >>
    /\ peer_locations = << >>
    /\ rate_limiter = NoRequest
    /\ now = 0
    /\ last = NoOp
    /\ pager = NotPaging

NextFingerprint ==
    \E source_id \in FingerprintSources : \E raw_name \in FingerprintNames :
       \E raw_address \in FingerprintAddresses :
          CheckAndInsertRaw(source_id, raw_name, raw_address)

SpecFingerprint == InitFingerprint /\ [][NextFingerprint]_vars

\* ------------------------------------------------------------------------
\* The source links on their own.  sk8stuff lists its rink twice,
\* learntoskate lists another rink of the town, and the verified
\* candidates are promoted; the candidates are then recorded as
\* corroborating either location, in any order.
\* ------------------------------------------------------------------------
\* the store after the two sources have run and the verified candidates
\* are promoted at time 0
Corroborated ==
    promote_verified(
        run_source(run_source([raw |-> << >>, cand |-> << >>, rej |-> << >>,
                               loc |-> << >>, ls |-> << >>, al |-> << >>],
                              "learntoskate", FALSE, FALSE, 0, Fetched("learntoskate"),
                              <<NoHit>>).db,
                   "sk8stuff", FALSE, TRUE, 0, Refetched("sk8stuff"),
                   <<HitM, HitM>>).db,
        << >>, 0).db

InitLink ==
    /\ raw_entries = Corroborated.raw
    /\ candidates = Corroborated.cand
    /\ rejected_entries = Corroborated.rej
    /\ locations = Corroborated.loc
    /\ location_sources = Corroborated.ls
    /\ location_aliases = << >>
    /\ peer_locations = << >>
    /\ rate_limiter = NoRequest
    /\ now = 0
    /\ last = NoOp
    /\ pager = NotPaging

NextLink ==
    \/ Tick
    \/ \E location_id \in LocationIds : \E cid \in 1..Len(candidates) :
          AddLocationSource(location_id, cid)

SpecLink == InitLink /\ [][NextLink]_vars

\* ------------------------------------------------------------------------
\* Promotion in batches.  The store holds up to MaxBatch candidates of one
\* rink: verified with or without a zip, duplicates of the first, and a
\* last one that may be streetless and unverified; promotion runs to its
\* end or is cancelled inside a loop.
\* ------------------------------------------------------------------------
\* the most candidates the store holds
MaxBatch == 5

BatchShapes == {"zip", "no_zip", "duplicate", "wiki"}

\* candidate k of the table
BatchCandidate(k, shape) ==
    [NewCandidate(k, [name |-> "Rink Xy",
                      state |-> "IL",
                      city |-> "Ab", street |-> IF shape = "wiki" THEN NULL ELSE "2 M STREET"])
       EXCEPT !.verification_status =
                 CASE shape = "duplicate" -> "duplicate"
                   [] shape = "wiki" -> "unverified"
                   [] OTHER -> "geocode_match",
              !.zip = IF shape = "zip" THEN "60601" ELSE NULL,
              !.geo_lat = IF shape \in {"zip", "no_zip"} THEN "41.000" ELSE NULL,
              !.geo_lon = IF shape \in {"zip", "no_zip"} THEN "-87.000" ELSE NULL]

\* the tables of the shapes of n candidates: the first is no duplicate
\* and a streetless candidate, if there is one, is the last
BatchTables(n) ==
    {shapes \in [1..n -> BatchShapes] :
        /\ shapes[1] # "duplicate"
        /\ \A k \in 1..(n - 1) : shapes[k] # "wiki"}

\* the rejections the duplicates were recorded with
BatchRejections(shapes) ==
    LET dups == Ascending({k \in DOMAIN shapes : shapes[k] = "duplicate"})
    IN [j \in 1..Len(dups) |->
          Rejection(dups[j], "duplicate_address_exact", "Matches candidate 1: Rink Xy")]

\* the raw entry a candidate of the table was parsed from
BatchRaw(c) ==
    [source_id |-> SourceId(IF c.street = NULL THEN "fandom_wiki" ELSE "arena_guide"),
     raw_name |-> c.name,
     raw_address |-> IF c.street = NULL THEN "Ab, IL" ELSE c.street \o ", Ab, IL",
     raw_fingerprint |-> ToString(c.raw_entry_id),
     parse_status |-> "parsed"]

InitBatch ==
    /\ \E n \in 1..MaxBatch :
          \E shapes \in BatchTables(n) :
             /\ candidates = [k \in 1..n |-> BatchCandidate(k, shapes[k])]
             /\ rejected_entries = BatchRejections(shapes)
    /\ raw_entries = [i \in 1..Len(candidates) |-> BatchRaw(candidates[i])]
    /\ locations = << >>
    /\ location_sources = << >>
    /\ location_aliases = << >>
    /\ peer_locations = << >>
    /\ rate_limiter = NoRequest
    /\ now = 0
    /\ last = NoOp
    /\ pager = NotPaging

NextBatch ==
    \/ RunPromotion(<< >>)
    \/ \E phase \in 1..3 : \E i \in 1..MaxBatch : PromotionCancelled(<< >>, phase, i)

SpecBatch == InitBatch /\ [][NextBatch]_vars

\* ------------------------------------------------------------------------
\* Rinks listed twice.  sk8stuff lists its rink under two names with the
\* street spelled two ways, the wiki lists it under two names,
\* learntoskate lists another rink of the town; the sources run with or
\* without the geocoder, which answers with no place or any place, and the
\* candidates are promoted; no operator curates.
\* ------------------------------------------------------------------------
\* what the fetchers return when upstream lists the rink twice: sk8stuff
\* under another name with the street spelled out, the wiki under a
\* shorter name
Relisted(source_name) ==
    CASE source_name = "sk8stuff" ->
           Fetched("sk8stuff")
           \o <<[name |-> "Rink Xy", state |-> "IL", city |-> "Ab", street |-> "1 M Street"]>>
      [] source_name = "fandom_wiki" ->
           Fetched("fandom_wiki")
           \o <<[name |-> "Rink A", state |-> "Illinois", city |-> "Ab"]>>
      [] OTHER -> Fetched(source_name)

RelistedRuns ==
    {<<"sk8stuff", FALSE, TRUE, 0>>, <<"sk8stuff", FALSE, FALSE, 0>>,
     <<"fandom_wiki", FALSE, FALSE, 0>>, <<"learntoskate", FALSE, TRUE, 0>>}

NextRelisted ==
    \/ \E run \in RelistedRuns :
          \E answers \in [1..Len(Relisted(run[1])) ->
                             IF run[1] = "sk8stuff" /\ run[3] THEN Answers ELSE {NoHit}] :
             RunSource(run[1], Relisted(run[1]), run[2], run[3], run[4], answers)
    \/ \E answers \in [Asked(NULL) -> {NoHit, HitM}] : GeocodePending(NULL, answers)
    \/ \E peers \in PeerLists : PromoteVerified(peers)
    \/ RunPromotion(<< >>)

SpecRelisted == Init /\ [][NextRelisted]_vars

\* ------------------------------------------------------------------------
\* What the source supplies.  learntoskate lists a rink on one street with
\* or without a zip and with both, one or no coordinate, and on another
\* street at the same coordinates; it runs with or without the geocoder,
\* and the candidates are looked up and promoted.
\* ------------------------------------------------------------------------
SuppliedZips == {"60601", ""}

SuppliedCoordinates == {<<"41.005", "-87.000">>, <<"41.005", NULL>>, <<NULL, NULL>>}

\* a row aggr_lts can return for the rink
SuppliedRow(street, zip, at) ==
    [name |-> "Rink Xy", state |-> "IL", zip |-> zip, lat |-> at[1],
     lng |-> at[2], city |-> "Ab", street |-> street]

SuppliedRows ==
    {SuppliedRow("2 M St", zip, at) : zip \in SuppliedZips, at \in SuppliedCoordinates}
    \cup {SuppliedRow("1 M St", zip, <<"41.005", "-87.000">>) : zip \in SuppliedZips}

NextSupplied ==
    \/ \E row \in SuppliedRows : \E geocode \in BOOLEAN :
          \E answer \in IF geocode THEN {NoHit, HitM} ELSE {NoHit} :
             RunSource("learntoskate", <<row>>, FALSE, geocode, 0, <<answer>>)
    \/ \E answers \in [Asked(NULL) -> {NoHit, HitMTown}] : GeocodePending(NULL, answers)
    \/ PromoteVerified(<< >>)

SpecSupplied == Init /\ [][NextSupplied]_vars

\* ------------------------------------------------------------------------
\* The deduplicator on its own.  The store holds up to MaxExisting
\* candidates of one town, of any name, street and verification, and one
\* candidate the runner has just inserted; find_duplicate is asked about
\* the new one.
\* ------------------------------------------------------------------------
\* the most candidates the store holds before the new one
MaxExisting == 2

DedupStreets == {"1 M STREET", "2 M STREET", NULL}

\* status and coordinates of an existing candidate
DedupVerifications ==
    {<<"unverified", NULL, NULL>>, <<"geocode_match", "41.000", "-87.000">>,
     <<"source_verified", "41.005", "-87.000">>}

\* status and coordinates of a candidate at the time of its dedup check:
\* the coordinates, if any, are those its source gave
DedupArrivals == {<<"unverified", NULL, NULL>>, <<"unverified", "41.005", "-87.000">>}

DedupCandidate(name, street, v) ==
    [NewCandidate(0, [name |-> name, state |-> "IL", city |-> "Ab", street |-> street])
       EXCEPT !.verification_status = v[1], !.geo_lat = v[2], !.geo_lon = v[3]]

DedupShapes(verifications) ==
    {DedupCandidate(name, street, v) :
        name \in KnownNames, street \in DedupStreets, v \in verifications}

\* the tables of n existing candidates
RECURSIVE DedupTables(_)
DedupTables(n) ==
    IF n = 0 THEN {<< >>}
    ELSE {Append(t, [c EXCEPT !.raw_entry_id = n]) :
             t \in DedupTables(n - 1), c \in DedupShapes(DedupVerifications)}

\* the raw entry a candidate of the table was parsed from
DedupRaw(c) ==
    [source_id |-> SourceId("arena_guide"),
     raw_name |-> c.name,
     raw_address |-> IF c.street = NULL THEN "Ab, IL" ELSE c.street \o ", Ab, IL",
     raw_fingerprint |-> ToString(c.raw_entry_id),
     parse_status |-> "parsed"]

RECURSIVE DedupRaws(_)
DedupRaws(t) ==
    IF t = << >> THEN << >>
    ELSE Append(DedupRaws(SubSeq(t, 1, Len(t) - 1)), DedupRaw(t[Len(t)]))

InitDedup ==
    /\ \E n \in 0..MaxExisting :
          \E t \in DedupTables(n) :
             \E c \in DedupShapes(DedupArrivals) :
                candidates = Append(t, [c EXCEPT !.raw_entry_id = n + 1])
    /\ raw_entries = DedupRaws(candidates)
    /\ rejected_entries = << >>
    /\ locations = << >>
    /\ location_sources = << >>
    /\ location_aliases = << >>
    /\ peer_locations = << >>
    /\ rate_limiter = NoRequest
    /\ now = 0
    /\ last = NoOp
    /\ pager = NotPaging

\* run_source, step 5: find_duplicate for the candidate just inserted
FindDuplicate ==
    /\ last.op = "none"
    /\ Returned("find_duplicate", <<Len(candidates)>>, TRUE,
                find_duplicate(candidates, Len(candidates)), DB)

NextDedup == FindDuplicate

SpecDedup == InitDedup /\ [][NextDedup]_vars

\* ------------------------------------------------------------------------
\* The pools of the deduplicator.  The store holds up to MaxExisting
\* candidates of one name in any status, with or without a street, and
\* one candidate the runner has just inserted.
\* ------------------------------------------------------------------------
\* status and coordinates of an existing candidate, in any status
PoolVerifications ==
    DedupVerifications
    \cup {<<"human_approved", "41.000", "-87.000">>, <<"duplicate", "41.005", "-87.000">>,
          <<"geocode_mismatch", "41.000", "-87.000">>, <<"geocode_failed", NULL, NULL>>}

PoolShapes ==
    {DedupCandidate("Rink A", street, v) :
        street \in {"1 M STREET", NULL}, v \in PoolVerifications}

\* the tables of n existing candidates
RECURSIVE PoolTables(_)
PoolTables(n) ==
    IF n = 0 THEN {<< >>}
    ELSE {Append(t, [c EXCEPT !.raw_entry_id = n]) : t \in PoolTables(n - 1), c \in PoolShapes}

\* the candidates the runner may have inserted
PoolArrivals ==
    {DedupCandidate(name, street, v) :
        name \in {"Rink A", "Rink Xy"}, street \in DedupStreets, v \in DedupArrivals}

InitPool ==
    /\ \E n \in 0..MaxExisting :
          \E t \in PoolTables(n) :
             \E c \in PoolArrivals :
                candidates = Append(t, [c EXCEPT !.raw_entry_id = n + 1])
    /\ raw_entries = DedupRaws(candidates)
    /\ rejected_entries = << >>
    /\ locations = << >>
    /\ location_sources = << >>
    /\ location_aliases = << >>
    /\ peer_locations = << >>
    /\ rate_limiter = NoRequest
    /\ now = 0
    /\ last = NoOp
    /\ pager = NotPaging

SpecPool == InitPool /\ [][NextDedup]_vars

\* ------------------------------------------------------------------------
\* Geocoding.  The store holds candidates left unverified by runs without
\* the geocoder; some carry the zip or the coordinates their source gave.
\* The geocoder answers with no place, with one of the places above, or
\* with a place whose town is spelled another way.
\* ------------------------------------------------------------------------
\* a place with no road whose town has one letter of two in common with
\* Ab: the score is (0.4 + 1.0) / 2
HitTie ==
    [lat |-> "41.000", found |-> TRUE, lon |-> "-87.000", display_name |-> "Axy",
     postcode |-> NULL,
     address_detail |-> [NoDetail EXCEPT !.city = "Axy", !.iso = "US-IL"]]

\* the like with a longer town: the score is (1/3 + 1.0) / 2
HitNear ==
    [lat |-> "41.000", found |-> TRUE, lon |-> "-87.000", display_name |-> "Axyz",
     postcode |-> "60602",
     address_detail |-> [NoDetail EXCEPT !.city = "Axyz", !.iso = "US-IL"]]

GeocodeAnswers == {NoHit, HitM, HitMTown, HitQ, HitTie, HitNear}

MaxPending == 2

\* what a source gave with the address: <<zip, lat, lon>>, never all three
GivenBySource ==
    {<<NULL, NULL, NULL>>, <<"60699", NULL, NULL>>, <<NULL, "41.005", "-87.000">>}

\* an unverified candidate of raw entry raw_entry_id
PendingCandidate(raw_entry_id, street, given) ==
    [NewCandidate(raw_entry_id,
                  [name |-> "Rink Xy", state |-> "IL", city |-> "Ab", street |-> street])
       EXCEPT !.zip = given[1], !.geo_lat = given[2], !.geo_lon = given[3]]

\* the tables of n unverified candidates
RECURSIVE PendingTables(_)
PendingTables(n) ==
    IF n = 0 THEN {<< >>}
    ELSE {Append(t, PendingCandidate(n, street, given)) :
             t \in PendingTables(n - 1), street \in {"2 M STREET", NULL},
             given \in GivenBySource}

\* the raw entry of such a candidate
PendingRaw(c) ==
    [source_id |-> SourceId("learntoskate"),
     raw_name |-> c.name,
     raw_address |-> IF c.street = NULL THEN "Ab, IL" ELSE c.street \o ", Ab, IL",
     raw_fingerprint |-> ToString(c.raw_entry_id),
     parse_status |-> "parsed"]

InitGeocode ==
    /\ \E n \in 1..MaxPending : candidates \in PendingTables(n)
    /\ raw_entries = [i \in 1..Len(candidates) |-> PendingRaw(candidates[i])]
    /\ rejected_entries = << >>
    /\ locations = << >>
    /\ location_sources = << >>
    /\ location_aliases = << >>
    /\ peer_locations = << >>
    /\ rate_limiter = NoRequest
    /\ now = 0
    /\ last = NoOp
    /\ pager = NotPaging

\* run_pipeline.py --geocode-pending, the answers of the geocoder kept:
\* answers[i] is what it returns for candidate i
GeocodePendingWith(answers) ==
    Returned("geocode_pending", <<NULL, answers>>, TRUE, << >>,
             geocode_pending(DB, NULL, answers).db)

NextGeocode ==
    \/ \E asked \in [Asked(NULL) -> GeocodeAnswers] :
          GeocodePendingWith([i \in 1..Len(candidates) |->
                                 IF i \in DOMAIN asked THEN asked[i] ELSE NoHit])
    \/ \E answers \in [1..Len(Fetched("sk8stuff")) -> GeocodeAnswers] :
          RunSource("sk8stuff", Fetched("sk8stuff"), FALSE, TRUE, 0, answers)

SpecGeocode == InitGeocode /\ [][NextGeocode]_vars

\* ------------------------------------------------------------------------
\* The scrape of arena-guide on its own: pull_arena_guide_content asks for
\* page after page, and upstream answers each request in any of the four
\* ways.
\* ------------------------------------------------------------------------
MaxPages == 6

\* pull_arena_guide_content, one request and what the loop does with it
RequestPage(outcome) ==
    /\ pager.pc = "request"
    /\ pager.page_number < MaxPages
    /\ pager' = NextPage(pager, outcome)
    /\ UNCHANGED <<raw_entries, candidates, rejected_entries, locations, location_sources,
                   location_aliases, peer_locations, rate_limiter, now, last>>

InitPaging ==
    /\ raw_entries = << >>
    /\ candidates = << >>
    /\ rejected_entries = << >>
    /\ locations = << >>
    /\ location_sources = << >>
    /\ location_aliases = << >>
    /\ peer_locations = << >>
    /\ rate_limiter = NoRequest
    /\ now = 0
    /\ last = NoOp
    /\ pager = PagingStarts

NextPaging == \E outcome \in PageOutcomes : RequestPage(outcome)

SpecPaging == InitPaging /\ [][NextPaging]_vars

\* ------------------------------------------------------------------------
\* Properties of ingestion and verification, checked under Spec
\* ------------------------------------------------------------------------
\* the flags and the limit a run can be given
RunFlags == BOOLEAN \X BOOLEAN \X {0, 1}

\* a run that found nothing new among n rows and left the tables alone
NothingNew(again, n) ==
    /\ again.stats.new = 0
    /\ again.stats.skipped = n
    /\ again.db.raw = raw_entries
    /\ again.db.cand = candidates
    /\ again.db.rej = rejected_entries

\* C1: raw idempotence.  Right after a completed run_source of a source
\* over N rows (no limit), a second run_source of the same source over the
\* same rows, whatever its flags and whatever the geocoder would answer,
\* reports new = 0 and skipped = N and inserts no RawEntry, Candidate or
\* RejectedEntry.
C1_RawIdempotence ==
    (last.op = "run_source" /\ last.args[5] = 0) =>
        \A flags \in RunFlags : \A answer \in Answers :
            NothingNew(run_source(DB, last.args[1], flags[1], flags[2], flags[3],
                                  last.args[2],
                                  [k \in 1..Len(last.args[2]) |-> answer]),
                       Len(last.args[2]))

\* the raw entries of a source that are still pending
PendingOf(source_name) ==
    {i \in 1..Len(raw_entries) :
        /\ raw_entries[i].source_id = SourceId(source_name)
        /\ raw_entries[i].parse_status = "pending"}

\* C1, its case: a full run of a source has just followed a scrape-only run
\* over the same two rows: it skipped both, which is why they are still
\* pending
C1_Witness ==
    /\ last.op = "run_source"
    /\ ~last.args[3]
    /\ last.args[5] = 0
    /\ Len(last.args[2]) = 2
    /\ Cardinality(PendingOf(last.args[1])) = 2

\* a phase 1 that promoted nothing and left the store alone
PhaseOneIdle(again) ==
    /\ again.stats.promoted_new = 0
    /\ again.stats.promoted_existing = 0
    /\ again.db.loc = locations
    /\ again.db.ls = location_sources
    /\ \A i \in 1..Len(candidates) :
          again.db.cand[i].location_id = candidates[i].location_id

\* C2: promotion idempotence.  Right after phase 1 has run (on its own or
\* as the first phase of run_promotion), running promote_verified again,
\* whatever the peer list and the time, reports promoted_new = 0 and
\* promoted_existing = 0, creates no Location and changes no candidate's
\* location id and no LocationSource row.
C2_PromotionIdempotence ==
    last.op \in {"promote_verified", "run_promotion"} =>
        \A peers \in PeerLists : \A t \in 0..MaxTime :
            PhaseOneIdle(promote_verified(DB, peers, t))

\* C2, its case: phase 1 has just run and has promoted a candidate
C2_Witness ==
    /\ last.op = "promote_verified"
    /\ Len(locations) >= 1
    /\ \E i \in 1..Len(candidates) :
          /\ candidates[i].verification_status = "geocode_match"
          /\ candidates[i].location_id # NULL
    /\ \E i \in 1..Len(candidates) :
          /\ candidates[i].verification_status = "duplicate"
          /\ candidates[i].location_id = NULL

\* the row check_and_insert_raw inserts is pending
InsertedPending(r) == r[3] => r[1][r[2]].parse_status = "pending"

\* C9: the RawEntry state machine.  No raw entry is ever removed; a row is
\* inserted as pending (and is pending, parsed or failed when the run that
\* inserted it has ended); an existing row keeps its parse status, or goes
\* from pending to parsed or to failed: once parsed or failed it never
\* changes again.
C9_RawEntryStateMachine ==
    [][/\ Len(raw_entries') >= Len(raw_entries)
       /\ \A i \in 1..Len(raw_entries) :
             \/ raw_entries'[i].parse_status = raw_entries[i].parse_status
             \/ /\ raw_entries[i].parse_status = "pending"
                /\ raw_entries'[i].parse_status \in {"parsed", "failed"}
       /\ \A i \in (Len(raw_entries) + 1)..Len(raw_entries') :
             raw_entries'[i].parse_status \in {"pending", "parsed", "failed"}
       /\ \A row \in RawDataRows :
             InsertedPending(check_and_insert_raw(raw_entries, SourceId(row[1]),
                                                  row[2].name, row[2].address))]_vars

\* C9, its case: a run of sk8stuff without the geocoder has just ended
\* while the sk8stuff row was parsed by an earlier run (its candidate is
\* already verified), and another source has a failed row
C9_Witness ==
    /\ last.op = "run_source"
    /\ last.args[1] = "sk8stuff"
    /\ ~last.args[4]
    /\ \E i \in 1..Len(candidates) :
          /\ candidates[i].verification_status = "geocode_match"
          /\ raw_entries[candidates[i].raw_entry_id].source_id = SourceId("sk8stuff")
          /\ raw_entries[candidates[i].raw_entry_id].parse_status = "parsed"
    /\ \E i \in 1..Len(raw_entries) : raw_entries[i].parse_status = "failed"

\* the statuses verification can give an unverified candidate
VerifiedStatuses ==
    {"geocode_match", "geocode_mismatch", "geocode_failed", "source_verified", "duplicate"}

\* C10: the Candidate state machine.  A candidate appears unverified or
\* with one of the five statuses verification gives; in a step of any
\* operation other than repair_geocode_failed, a candidate whose status is
\* not unverified keeps it, and an unverified one keeps it or takes one of
\* the five: the status changes at most once between repairs.
C10_CandidateStateMachine ==
    [][/\ Len(candidates') >= Len(candidates)
       /\ \A i \in (Len(candidates) + 1)..Len(candidates') :
             candidates'[i].verification_status \in {"unverified"} \cup VerifiedStatuses
       /\ last'.op # "repair_geocode_failed" =>
             \A i \in 1..Len(candidates) :
                \/ candidates'[i].verification_status = candidates[i].verification_status
                \/ /\ candidates[i].verification_status = "unverified"
                   /\ candidates'[i].verification_status \in VerifiedStatuses]_vars

\* C10, its case: geocode_pending has just run over a store that holds a
\* duplicate and a mismatch, which it leaves, and a candidate it matched
C10_Witness ==
    /\ last.op = "geocode_pending"
    /\ \E i \in 1..Len(candidates) : candidates[i].verification_status = "duplicate"
    /\ \E i \in 1..Len(candidates) : candidates[i].verification_status = "geocode_mismatch"
    /\ \E i \in 1..Len(candidates) : candidates[i].verification_status = "geocode_match"

\* ------------------------------------------------------------------------
\* Properties of merging, checked under SpecMerge
\* ------------------------------------------------------------------------
\* the rows of a table of links for a (location, source) pair
LinksOf(ls, location_id, source_id) ==
    {i \in 1..Len(ls) : ls[i].location_id = location_id /\ ls[i].source_id = source_id}

\* at most one row per (location, source) pair
UniqueLinks(ls) ==
    \A i \in 1..Len(ls) : \A j \in 1..Len(ls) :
        (ls[i].location_id = ls[j].location_id /\ ls[i].source_id = ls[j].source_id) => i = j

\* the link of the pair is there, seen at time seen and present, and it was
\* first seen when the old link e was
SeenAgain(ls, e, location_id, source_id, seen) ==
    \A i \in LinksOf(ls, location_id, source_id) :
        /\ ls[i].last_seen_at = seen
        /\ ls[i].is_present
        /\ ls[i].first_seen_at = location_sources[e].first_seen_at

\* the step is that of an operation, not the passing of time
Acts == now' = now

\* the source of candidate i
SourceOf(i) == raw_entries[candidates[i].raw_entry_id].source_id

\* C3: the LocationSource upsert.  After every step of the promotion
\* phases, of a merge and of an ice-time sync there is at most one
\* LocationSource row per (location, source) pair; when a promotion phase
\* links a candidate to a location that already has a row for the
\* candidate's source, and when a sync reports a location that already has
\* a skatetrax row, that row's last_seen_at is set (to now, or to the time
\* the sync reports), it is present, and no second row is inserted.
C3_LocationSourceUpsert ==
    [][/\ UniqueLinks(location_sources')
       /\ \A i \in 1..Len(candidates) :
             (/\ candidates[i].location_id = NULL
              /\ candidates'[i].location_id # NULL
              /\ LinksOf(location_sources, candidates'[i].location_id, SourceOf(i)) # {})
             => /\ Cardinality(LinksOf(location_sources', candidates'[i].location_id,
                                       SourceOf(i))) = 1
                /\ SeenAgain(location_sources',
                             LinkIndex(location_sources, candidates'[i].location_id,
                                       SourceOf(i)),
                             candidates'[i].location_id, SourceOf(i), now)
       /\ (last'.op = "sync_ice_time" /\ Acts) =>
             \A k \in 1..Len(last'.args[1]) :
                LinksOf(location_sources, last'.args[1][k][1], SourceId("skatetrax")) # {}
                => /\ Cardinality(LinksOf(location_sources', last'.args[1][k][1],
                                          SourceId("skatetrax"))) = 1
                   /\ SeenAgain(location_sources',
                                LinkIndex(location_sources, last'.args[1][k][1],
                                          SourceId("skatetrax")),
                                last'.args[1][k][1], SourceId("skatetrax"),
                                IF last'.args[1][k][2] # NULLT THEN last'.args[1][k][2]
                                ELSE now)]_vars

\* C3, its case: the promotion has just linked a second sk8stuff candidate
\* to a location at a later time than the first, and the location has one
\* sk8stuff row, first seen then and last seen now
C3_Witness ==
    /\ last.op = "run_promotion"
    /\ now = 1
    /\ \E l \in 1..Len(location_sources) :
          /\ location_sources[l].source_id = SourceId("sk8stuff")
          /\ location_sources[l].first_seen_at = 0
          /\ location_sources[l].last_seen_at = 1
          /\ Cardinality({i \in 1..Len(candidates) :
                            /\ candidates[i].location_id = location_sources[l].location_id
                            /\ SourceOf(i) = SourceId("sk8stuff")}) = 2

\* the step is a merge that succeeded
MergeDone == last'.op = "merge_locations" /\ last'.ok /\ Acts

\* C4: merge re-points candidates.  After merge_locations(A, B) succeeds, A
\* has the status merged, every candidate that pointed at A points at B, no
\* candidate points at A, and every other candidate's location id is as it
\* was.
C4_MergeRepointsCandidates ==
    [][MergeDone =>
          /\ Len(candidates') = Len(candidates)
          /\ Len(locations') = Len(locations)
          /\ locations'[LocationIndex(locations, last'.args[1])].rink_status = "merged"
          /\ \A i \in 1..Len(candidates) :
                /\ candidates'[i].location_id # last'.args[1]
                /\ candidates[i].location_id = last'.args[1]
                      => candidates'[i].location_id = last'.args[2]
                /\ candidates[i].location_id # last'.args[1]
                      => candidates'[i].location_id = candidates[i].location_id]_vars

\* C4, its case: a merge has just re-pointed a candidate at the target,
\* which has a candidate of its own
C4_Witness ==
    /\ last.op = "merge_locations"
    /\ last.ok
    /\ last.out[3] >= 1
    /\ Cardinality({i \in 1..Len(candidates) : candidates[i].location_id = last.args[2]})
          > last.out[3]

\* the earliest and the latest of the timestamps that are not NULL
MinNonNull(S) ==
    IF S \ {NULLT} = {} THEN NULLT
    ELSE CHOOSE x \in S \ {NULLT} : \A y \in S \ {NULLT} : x <= y

MaxNonNull(S) ==
    IF S \ {NULLT} = {} THEN NULLT
    ELSE CHOOSE x \in S \ {NULLT} : \A y \in S \ {NULLT} : x >= y

\* the sources linked to a location
SourcesLinked(ls, location_id) ==
    {ls[i].source_id : i \in {j \in 1..Len(ls) : ls[j].location_id = location_id}}

\* C5: merge moves the source links.  After merge_locations(A, B) succeeds,
\* for every source that was linked to A, B has exactly one LocationSource
\* row for it, first seen at the earliest non-null first_seen of A's row and
\* B's former row and last seen at the latest non-null last_seen of the two,
\* and A has no LocationSource row left.
C5_MergeMovesSourceLinks ==
    [][MergeDone =>
          /\ \A i \in 1..Len(location_sources') :
                location_sources'[i].location_id # last'.args[1]
          /\ \A s \in SourcesLinked(location_sources, last'.args[1]) :
                /\ Cardinality(LinksOf(location_sources', last'.args[2], s)) = 1
                /\ \A n \in LinksOf(location_sources', last'.args[2], s) :
                      /\ location_sources'[n].first_seen_at =
                            MinNonNull({location_sources[i].first_seen_at :
                                          i \in LinksOf(location_sources, last'.args[1], s)
                                                \cup LinksOf(location_sources,
                                                             last'.args[2], s)})
                      /\ location_sources'[n].last_seen_at =
                            MaxNonNull({location_sources[i].last_seen_at :
                                          i \in LinksOf(location_sources, last'.args[1], s)
                                                \cup LinksOf(location_sources,
                                                             last'.args[2], s)})]_vars

\* C5, its case: a merge has just moved one link of the source location and
\* widened a link of the target, whose skatetrax row now spans two times
C5_Witness ==
    /\ last.op = "merge_locations"
    /\ last.ok
    /\ last.out[1] >= 1
    /\ last.out[2] >= 1
    /\ \E n \in LinksOf(location_sources, last.args[2], SourceId("skatetrax")) :
          /\ location_sources[n].first_seen_at = 0
          /\ location_sources[n].last_seen_at = 1

\* C6: merge records the old name.  After merge_locations(A, B) succeeds
\* with A.name # B.name, a LocationAlias with alias_name = A.name exists on
\* B; when the two names are equal the merge adds no alias.
C6_MergeRecordsOldName ==
    [][MergeDone =>
          IF locations[LocationIndex(locations, last'.args[1])].rink_name
                # locations[LocationIndex(locations, last'.args[2])].rink_name
          THEN \E a \in 1..Len(location_aliases') :
                  /\ location_aliases'[a].location_id = last'.args[2]
                  /\ location_aliases'[a].alias_name =
                        locations[LocationIndex(locations, last'.args[1])].rink_name
          ELSE location_aliases' = location_aliases]_vars

\* C6, its case: a merge of two locations of different names has just
\* added the alias
C6_Witness ==
    /\ last.op = "merge_locations"
    /\ last.ok
    /\ last.out[4]
    /\ \E a \in 1..Len(location_aliases) :
          /\ location_aliases[a].location_id = last.args[2]
          /\ location_aliases[a].notes = "Merged from " \o last.args[1]
          /\ location_aliases[a].alias_name # 
                locations[LocationIndex(locations, last.args[2])].rink_name

\* C6, the other case: a merge of two locations of one name has just ended
\* without an alias
C6_EqualNamesReached ==
    /\ last.op = "merge_locations"
    /\ last.ok
    /\ ~last.out[4]

\* ------------------------------------------------------------------------
\* Properties of matching, checked under SpecCurate
\* ------------------------------------------------------------------------
\* C7: locations that are not active are invisible to the promoter.  When
\* phase 1 or phase 3 links a candidate to a location that existed before
\* the step, that location is active: it is not closed_permanently,
\* seasonal, merged or disabled.
C7_InactiveInvisible ==
    [][last'.op \in {"promote_verified", "link_wiki_entries", "run_promotion"} =>
          \A i \in 1..Len(candidates) :
             (/\ candidates[i].location_id = NULL
              /\ candidates'[i].location_id # NULL
              /\ candidates[i].verification_status # "duplicate"
              /\ LocationIndex(locations, candidates'[i].location_id) # 0)
             => locations[LocationIndex(locations, candidates'[i].location_id)].rink_status
                   = "active"]_vars

\* no two locations share an identifier
UniqueIds(loctab) ==
    \A i \in 1..Len(loctab) : \A j \in 1..Len(loctab) :
        loctab[i].rink_id = loctab[j].rink_id => i = j

\* the candidates phase 1 takes and does not skip, in the order it takes
\* them
Zipped(db) == Ascending({i \in PromotableIds(db) : Truthy(db.cand[i].zip)})

\* the identifiers of the rows of the peer
PeerIds(peers) == {peers[k].rink_id : k \in 1..Len(peers)}

\* C8 for the first candidate c that phase 1 takes, given the position
\* local of the location that matches it and the position peer of the peer
\* row that matches it (0: none), and the stats phase 1 returns
Adopted(c, n, peers, local, peer, stats) ==
    /\ (local = 0 /\ peer # 0 /\ LocationIndex(locations, peers[peer].rink_id) = 0)
          => /\ candidates'[c].location_id = peers[peer].rink_id
             /\ Len(locations') > Len(locations)
             /\ locations'[Len(locations) + 1].rink_id = peers[peer].rink_id
             /\ stats.adopted_skatetrax_uuid >= 1
             /\ stats.promoted_new >= 1
    /\ (local = 0 /\ peer # 0 /\ LocationIndex(locations, peers[peer].rink_id) # 0)
          => /\ candidates'[c].location_id = peers[peer].rink_id
             /\ n = 1 => /\ locations' = locations
                         /\ stats.adopted_skatetrax_uuid = 0
                         /\ stats.promoted_existing = 1
    /\ (local = 0 /\ peer = 0)
          => /\ candidates'[c].location_id \notin
                   {locations[j].rink_id : j \in 1..Len(locations)} \cup PeerIds(peers)
             /\ Len(locations') > Len(locations)
             /\ locations'[Len(locations) + 1].rink_id = candidates'[c].location_id
             /\ n = 1 => stats.adopted_skatetrax_uuid = 0

\* C8: identifier adoption.  In phase 1, when no local location matches the
\* candidate but a peer row with identifier U does, the candidate is linked
\* to a location whose identifier is U: a location with id U is created and
\* adopted_skatetrax_uuid is incremented, unless a location with id U
\* exists, and then the candidate is linked to it and no location is
\* created; when no peer row matches, the new location has a fresh
\* identifier.  No two locations ever share an identifier.
C8_IdentifierAdoption ==
    [][/\ UniqueIds(locations')
       /\ (last'.op = "promote_verified" /\ Zipped(DB) # << >>) =>
             Adopted(Zipped(DB)[1], Len(Zipped(DB)), last'.args[1],
                     _find_matching_location(locations,
                                             candidates[Zipped(DB)[1]].name,
                                             candidates[Zipped(DB)[1]].street,
                                             candidates[Zipped(DB)[1]].city,
                                             candidates[Zipped(DB)[1]].state),
                     _find_skatetrax_match(last'.args[1],
                                           candidates[Zipped(DB)[1]].name,
                                           candidates[Zipped(DB)[1]].street,
                                           candidates[Zipped(DB)[1]].city,
                                           candidates[Zipped(DB)[1]].state),
                     promote_verified(DB, last'.args[1], now).stats)]_vars

\* C8, its case: phase 1 has just run with the peer's rows, and the one
\* candidate linked to the location with the peer's identifier is the one
\* it was created for
C8_Witness ==
    /\ last.op = "promote_verified"
    /\ last.args[1] = PeerRows
    /\ \E j \in 1..Len(locations) :
          /\ locations[j].rink_id \in PeerIds(PeerRows)
          /\ Cardinality({i \in 1..Len(candidates) :
                            candidates[i].location_id = locations[j].rink_id}) = 1

\* C8, the other case: two candidates are linked to the one location, which
\* has the peer's identifier and is disabled
C8_ExistingReached ==
    /\ last.op = "promote_verified"
    /\ last.args[1] = PeerRows
    /\ Len(locations) = 1
    /\ locations[1].rink_id \in PeerIds(PeerRows)
    /\ locations[1].rink_status = "disabled"
    /\ \A i \in 1..Len(candidates) :
          candidates[i].verification_status = "geocode_match" =>
             candidates[i].location_id = locations[1].rink_id
    /\ Cardinality({i \in 1..Len(candidates) :
                      candidates[i].verification_status = "geocode_match"}) = 2

\* ------------------------------------------------------------------------
\* Properties of verification and promotion, checked under SpecPromote
\* ------------------------------------------------------------------------
\* the fields of a candidate that a lookup or a repair writes
LookupFields(c) ==
    <<c.verification_status, c.geo_lat, c.geo_lon, c.geo_confidence,
      c.geo_matched_name, c.zip, c.street, c.city, c.state>>

\* C11: a candidate with a location id is never geocoded again.  A linked
\* candidate is not among those geocode_pending asks the geocoder about
\* (for all sources or for one), is not among those a repair resets, and
\* no step changes its status or what a lookup writes.
C11_LinkedNeverGeocoded ==
    [][\A i \in 1..Len(candidates) :
          candidates[i].location_id # NULL =>
             /\ i \notin Asked(NULL)
             /\ \A source_name \in ScrapedSources : i \notin Asked(source_name)
             /\ candidates[i].verification_status # "geocode_failed"
             /\ LookupFields(candidates'[i]) = LookupFields(candidates[i])]_vars

\* C11, its case: geocode_pending has just looked up the sk8stuff candidate
\* while the wiki candidate, still unverified, was linked to a location
C11_Witness ==
    /\ last.op = "geocode_pending"
    /\ \E i \in 1..Len(candidates) :
          /\ candidates[i].verification_status = "unverified"
          /\ candidates[i].location_id # NULL
    /\ \E i \in 1..Len(candidates) :
          /\ raw_entries[candidates[i].raw_entry_id].source_id = SourceId("sk8stuff")
          /\ candidates[i].verification_status \in {"geocode_match", "geocode_failed"}
          /\ candidates[i].geo_matched_name # NULL
                \/ candidates[i].verification_status = "geocode_failed"

\* ------------------------------------------------------------------------
\* Properties of the deduplicator, checked under SpecDedup
\* ------------------------------------------------------------------------
\* candidates a and b have a street and share normalized street, city and
\* state
SharesAddress(a, b) ==
    /\ _normalize_for_dedup(a.street) # ""
    /\ _normalize_for_dedup(a.street) = _normalize_for_dedup(b.street)
    /\ _normalize_for_dedup(a.city) = _normalize_for_dedup(b.city)
    /\ _normalize_for_dedup(a.state) = _normalize_for_dedup(b.state)

\* the candidates other than cid
Others(cid) == (1..Len(candidates)) \ {cid}

\* C12: dedup tiering.  When a candidate of the verified pool shares the
\* new candidate's normalized street, city and state, find_duplicate
\* answers address_exact with such a candidate, wherever it stands among
\* the existing candidates and whatever else matches by name or by
\* distance.
C12_DedupTiering ==
    last.op = "find_duplicate" =>
        ((\E o \in Others(last.args[1]) :
             /\ candidates[o].verification_status \in VerifiedPool
             /\ SharesAddress(candidates[last.args[1]], candidates[o]))
         => /\ last.out[2] = "address_exact"
            /\ last.out[1] \in Others(last.args[1])
            /\ candidates[last.out[1]].verification_status \in VerifiedPool
            /\ SharesAddress(candidates[last.args[1]], candidates[last.out[1]]))

\* C12, its case: the second candidate shares the new one's address; the
\* first one, also verified, has the new one's name and its coordinates at
\* another street
C12_Witness ==
    /\ last.op = "find_duplicate"
    /\ Len(candidates) = 3
    /\ last.out = <<2, "address_exact">>
    /\ candidates[1].verification_status \in VerifiedPool
    /\ candidates[1].name = candidates[3].name
    /\ candidates[1].street # candidates[3].street
    /\ candidates[1].street # NULL
    /\ candidates[1].geo_lat = candidates[3].geo_lat
    /\ candidates[3].geo_lat # NULL

\* candidate a has no street
Streetless(a) == _normalize_for_dedup(a.street) = ""

\* candidates a and b are of one town and their names are as similar as
\* threshold asks
SimilarInTown(a, b, threshold) ==
    /\ _normalize_for_dedup(a.city) = _normalize_for_dedup(b.city)
    /\ _normalize_for_dedup(a.state) = _normalize_for_dedup(b.state)
    /\ FracAtLeast(Ratio(_normalize_for_dedup(a.name), _normalize_for_dedup(b.name)),
                   threshold)

\* C13: the extended pool of layer 2.  Whenever the new candidate or an
\* existing one has no street, the existing one is eligible when it is
\* verified or unverified, with the threshold 0.60: if it is that similar
\* in the same town, find_duplicate finds a match.  When find_duplicate
\* answers fuzzy_name for two candidates with a street, the match is of the
\* verified pool and similar by the threshold 0.80.
C13_ExtendedPool ==
    last.op = "find_duplicate" =>
        /\ \A o \in Others(last.args[1]) :
              (/\ candidates[o].verification_status \in VerifiedPool \cup {"unverified"}
               /\ Streetless(candidates[last.args[1]]) \/ Streetless(candidates[o])
               /\ SimilarInTown(candidates[last.args[1]], candidates[o],
                                FUZZY_NAME_THRESHOLD_NO_STREET))
              => last.out[1] # 0
        /\ (/\ last.out[2] = "fuzzy_name"
            /\ ~Streetless(candidates[last.args[1]])
            /\ ~Streetless(candidates[last.out[1]]))
              => /\ candidates[last.out[1]].verification_status \in VerifiedPool
                 /\ SimilarInTown(candidates[last.args[1]], candidates[last.out[1]],
                                  FUZZY_NAME_THRESHOLD)

\* ------------------------------------------------------------------------
\* Properties of the dedup records, checked under Spec
\* ------------------------------------------------------------------------
\* the rejected entries of table rej for raw entry raw_id
RejectionsOf(rej, raw_id) == {k \in 1..Len(rej) : rej[k].raw_entry_id = raw_id}

\* rejection r records candidate i of table cand as a duplicate of an
\* earlier candidate, with the reason that goes with exact
RecordsDuplicate(r, cand, i, exact) ==
    /\ r.rejection_reason =
          IF exact THEN "duplicate_address_exact" ELSE "suspected_duplicate"
    /\ \E k \in 1..(i - 1) :
          r.raw_parse_error =
             "Matches candidate " \o ToString(k) \o ": " \o cand[k].name

\* an earlier candidate of the verified pool shares the address of
\* candidate i
ExactBefore(cand, i) ==
    \E o \in 1..(i - 1) :
       /\ cand[o].verification_status \in VerifiedPool
       /\ SharesAddress(cand[i], cand[o])

\* C14: the dedup outcome is recorded.  A candidate that a run of
\* run_source has marked duplicate was not geocoded, and the run added
\* exactly one RejectedEntry for its raw entry, with the reason
\* duplicate_address_exact when a verified candidate shares its address and
\* suspected_duplicate otherwise, and with the text 'Matches candidate
\* <ID>: <name>' of an earlier candidate; a new candidate that shares the
\* address of a verified one is marked duplicate.  Hence every duplicate
\* has exactly one such RejectedEntry.
C14_DedupRecorded ==
    [][/\ last'.op = "run_source" =>
             \A i \in (Len(candidates) + 1)..Len(candidates') :
                /\ ExactBefore(candidates', i) =>
                      candidates'[i].verification_status = "duplicate"
                /\ candidates'[i].verification_status = "duplicate" =>
                      /\ candidates'[i].geo_confidence = NOSCORE
                      /\ candidates'[i].geo_matched_name = NULL
                      /\ RejectionsOf(rejected_entries, candidates'[i].raw_entry_id) = {}
                      /\ \A k \in RejectionsOf(rejected_entries',
                                               candidates'[i].raw_entry_id) :
                            RecordsDuplicate(rejected_entries'[k], candidates', i,
                                             ExactBefore(candidates', i))
       /\ \A i \in 1..Len(candidates') :
             candidates'[i].verification_status = "duplicate" =>
                /\ Cardinality(RejectionsOf(rejected_entries',
                                            candidates'[i].raw_entry_id)) = 1
                /\ \A k \in RejectionsOf(rejected_entries', candidates'[i].raw_entry_id) :
                      \E exact \in BOOLEAN :
                         RecordsDuplicate(rejected_entries'[k], candidates', i, exact)]_vars

\* C14, its case: a run has just ended, and the store holds a duplicate by
\* address and a duplicate by another layer
C14_Witness ==
    /\ last.op = "run_source"
    /\ \E k \in 1..Len(rejected_entries) :
          /\ rejected_entries[k].rejection_reason = "duplicate_address_exact"
          /\ \E i \in 1..Len(candidates) :
                /\ candidates[i].raw_entry_id = rejected_entries[k].raw_entry_id
                /\ candidates[i].verification_status = "duplicate"
    /\ \E k \in 1..Len(rejected_entries) :
          /\ rejected_entries[k].rejection_reason = "suspected_duplicate"
          /\ \E i \in 1..Len(candidates) :
                /\ candidates[i].raw_entry_id = rejected_entries[k].raw_entry_id
                /\ candidates[i].verification_status = "duplicate"

\* ------------------------------------------------------------------------
\* Properties of promotion, checked under SpecPromote
\* ------------------------------------------------------------------------
\* candidate p is the primary named by the duplicate rejection of
\* candidate i, in the tables cand and rej
PrimaryOf(cand, rej, i, p) ==
    \E k \in RejectionsOf(rej, cand[i].raw_entry_id) :
       /\ rej[k].rejection_reason \in {"duplicate_address_exact", "suspected_duplicate"}
       /\ rej[k].raw_parse_error =
             "Matches candidate " \o ToString(p) \o ": " \o cand[p].name

\* the duplicates link_duplicates looks at
UnlinkedDuplicates ==
    {i \in 1..Len(candidates) :
        /\ candidates[i].verification_status = "duplicate"
        /\ candidates[i].location_id = NULL}

\* the link table ls has a link of location_id with the source of
\* candidate i
LinkedFrom(ls, location_id, i) ==
    \E k \in 1..Len(ls) :
       /\ ls[k].location_id = location_id
       /\ ls[k].source_id = raw_entries[candidates[i].raw_entry_id].source_id

\* C15: phase 2 linking.  link_duplicates gives every unlinked duplicate
\* the location id of the primary named in its duplicate RejectedEntry
\* when that primary has one, and a LocationSource of that location
\* records the duplicate's source; when the primary has none the duplicate
\* stays unlinked and is counted as primary_not_promoted.  After any step,
\* a linked duplicate has the location id of its primary.
C15_Phase2Linking ==
    [][/\ last'.op = "link_duplicates" =>
             /\ \A i \in UnlinkedDuplicates : \A p \in 1..Len(candidates) :
                   PrimaryOf(candidates, rejected_entries, i, p) =>
                      /\ candidates'[i].location_id = candidates[p].location_id
                      /\ candidates[p].location_id # NULL =>
                            LinkedFrom(location_sources', candidates[p].location_id, i)
             /\ link_duplicates(DB, now).stats.primary_not_promoted =
                   Cardinality({i \in UnlinkedDuplicates :
                                   \E p \in 1..Len(candidates) :
                                      /\ PrimaryOf(candidates, rejected_entries, i, p)
                                      /\ candidates[p].location_id = NULL})
       /\ \A i \in 1..Len(candidates') :
             /\ candidates'[i].verification_status = "duplicate"
             /\ candidates'[i].location_id # NULL
             => \E p \in 1..Len(candidates') :
                   /\ p # i
                   /\ PrimaryOf(candidates', rejected_entries', i, p)
                   /\ candidates'[i].location_id = candidates'[p].location_id]_vars

\* C15, its case: link_duplicates has linked a duplicate to the location
\* of its primary and left another one, whose primary has no location,
\* unlinked
C15_Witness ==
    /\ last.op = "link_duplicates"
    /\ \E i \in 1..Len(candidates) : \E p \in 1..Len(candidates) :
          /\ candidates[i].verification_status = "duplicate"
          /\ PrimaryOf(candidates, rejected_entries, i, p)
          /\ candidates[i].location_id # NULL
          /\ candidates[i].location_id = candidates[p].location_id
    /\ \E i \in 1..Len(candidates) : \E p \in 1..Len(candidates) :
          /\ candidates[i].verification_status = "duplicate"
          /\ PrimaryOf(candidates, rejected_entries, i, p)
          /\ candidates[i].location_id = NULL
          /\ candidates[p].location_id = NULL

\* candidate p is verified, unlinked and has a zip: phase 1 promotes it
PromotedByPhase1(p) ==
    /\ candidates[p].verification_status \in {"geocode_match", "source_verified"}
    /\ candidates[p].location_id = NULL
    /\ Truthy(candidates[p].zip)

Eligible ==
    {i \in 1..Len(candidates) : PromotedByPhase1(i)}

\* the verified, unlinked candidates with an empty zip
VerifiedNoZip ==
    {i \in 1..Len(candidates) :
        /\ candidates[i].verification_status \in {"geocode_match", "source_verified"}
        /\ candidates[i].location_id = NULL
        /\ ~Truthy(candidates[i].zip)}

\* C17: phase 1 eligibility.  promote_verified links only candidates that
\* are verified (geocode_match or source_verified), unlinked and have a
\* zip; every Location it creates and every LocationSource it adds is that
\* of such a candidate; a verified candidate with an empty zip stays
\* unlinked and is counted in skipped_no_zip.
C17_Phase1Eligibility ==
    [][last'.op = "promote_verified" =>
          /\ \A i \in 1..Len(candidates) :
                candidates'[i].location_id # candidates[i].location_id => i \in Eligible
          /\ \A k \in (Len(locations) + 1)..Len(locations') :
                \E i \in Eligible : candidates'[i].location_id = locations'[k].rink_id
          /\ \A k \in (Len(location_sources) + 1)..Len(location_sources') :
                \E i \in Eligible :
                   /\ candidates'[i].location_id = location_sources'[k].location_id
                   /\ raw_entries[candidates[i].raw_entry_id].source_id =
                         location_sources'[k].source_id
          /\ Eligible = {} =>
                /\ locations' = locations
                /\ location_sources' = location_sources
          /\ \A i \in VerifiedNoZip : candidates'[i].location_id = NULL
          /\ promote_verified(DB, last'.args[1], now).stats.skipped_no_zip =
                Cardinality(VerifiedNoZip)]_vars

\* C17, its case: promote_verified has run over a verified candidate with
\* no zip, which is still unlinked, and has linked another candidate
C17_Witness ==
    /\ last.op = "promote_verified"
    /\ \E i \in 1..Len(candidates) :
          /\ candidates[i].verification_status \in {"geocode_match", "source_verified"}
          /\ ~Truthy(candidates[i].zip)
          /\ candidates[i].location_id = NULL
    /\ \E i \in 1..Len(candidates) :
          /\ candidates[i].verification_status \in {"geocode_match", "source_verified"}
          /\ candidates[i].location_id # NULL

\* the candidates phase 3 looks at: unverified, unlinked, without a street
WikiPending ==
    {i \in 1..Len(candidates) :
        /\ candidates[i].verification_status = "unverified"
        /\ candidates[i].location_id = NULL
        /\ ~HasStreet(candidates[i])}

\* the position of the location that matches candidate i, or 0
MatchingLocation(i) ==
    _find_matching_location(locations, candidates[i].name, candidates[i].street,
                            candidates[i].city, candidates[i].state)

\* no candidate is added and none changes its status in the step
StatusesKept ==
    /\ Len(candidates') = Len(candidates)
    /\ \A i \in 1..Len(candidates) :
          candidates'[i].verification_status = candidates[i].verification_status

\* C18: wiki data alone never creates a Location.  link_wiki_entries
\* inserts no Location and changes no status; it links only unverified,
\* street-less, unlinked candidates, each to the existing Location that
\* matches it, with a LocationSource, and leaves those that match none
\* unlinked.  link_duplicates inserts no Location and changes no status.
\* Every Location a whole run_promotion inserts is that of a verified
\* candidate with a zip.
C18_WikiNeverCreates ==
    [][/\ last'.op = "link_wiki_entries" =>
             /\ locations' = locations
             /\ StatusesKept
             /\ \A i \in 1..Len(candidates) :
                   candidates'[i].location_id # candidates[i].location_id => i \in WikiPending
             /\ \A i \in WikiPending :
                   IF MatchingLocation(i) = 0
                   THEN candidates'[i].location_id = NULL
                   ELSE /\ candidates'[i].location_id = locations[MatchingLocation(i)].rink_id
                        /\ LinkedFrom(location_sources', candidates'[i].location_id, i)
       /\ last'.op = "link_duplicates" =>
             /\ locations' = locations
             /\ StatusesKept
       /\ last'.op = "run_promotion" =>
             /\ StatusesKept
             /\ \A k \in 1..Len(locations) : locations'[k].rink_id = locations[k].rink_id
             /\ \A k \in (Len(locations) + 1)..Len(locations') :
                   \E i \in Eligible : candidates'[i].location_id = locations'[k].rink_id]_vars

\* C18, its case: link_wiki_entries has linked an unverified street-less
\* candidate to a location, and the candidate is still unverified
C18_Witness ==
    /\ last.op = "link_wiki_entries"
    /\ \E i \in 1..Len(candidates) : \E k \in 1..Len(locations) :
          /\ candidates[i].verification_status = "unverified"
          /\ ~HasStreet(candidates[i])
          /\ candidates[i].location_id = locations[k].rink_id

\* ------------------------------------------------------------------------
\* Properties of repair and of failed lookups, checked under Spec
\* ------------------------------------------------------------------------
\* candidate c is unverified with its coordinates, confidence, matched
\* name and zip cleared
ResetToUnverified(c) ==
    /\ c.verification_status = "unverified"
    /\ c.geo_lat = NULL
    /\ c.geo_lon = NULL
    /\ c.geo_confidence = NOSCORE
    /\ c.geo_matched_name = NULL
    /\ c.zip = NULL

\* the raw entry of candidate i, parsed again, gives a street other than
\* the one the candidate has
ReparsesAnew(i) ==
    LET parsed == ParseOf(raw_entries[candidates[i].raw_entry_id])
    IN parsed.ok /\ Truthy(parsed.street) /\ parsed.street # candidates[i].street

\* C19 as stated: repair resets every geocode_mismatch and every
\* geocode_failed candidate to unverified and clears its coordinates,
\* confidence, matched name and zip
C19_RepairResetsAll ==
    [][last'.op = "repair_geocode_failed" =>
          \A i \in 1..Len(candidates) :
             candidates[i].verification_status \in {"geocode_mismatch", "geocode_failed"}
             => ResetToUnverified(candidates'[i])]_vars

\* C19, amended: repair applies to geocode_failed candidates only.  It
\* resets to unverified each of them whose raw entry parses again to a
\* street other than the stored one: the street, city and state are
\* replaced, coordinates, confidence, matched name and zip are cleared, and
\* geocode_pending picks the candidate up again.  Every other candidate,
\* geocode_mismatch ones included, and every other table is left as it is.
C19_RepairFailedReparsed ==
    [][last'.op = "repair_geocode_failed" =>
          /\ Len(candidates') = Len(candidates)
          /\ \A i \in 1..Len(candidates) :
                IF candidates[i].verification_status = "geocode_failed" /\ ReparsesAnew(i)
                THEN /\ ResetToUnverified(candidates'[i])
                     /\ candidates'[i].street =
                           ParseOf(raw_entries[candidates[i].raw_entry_id]).street
                     /\ i \in PendingIds([DB EXCEPT !.cand = candidates'], NULL)
                ELSE candidates'[i] = candidates[i]
          /\ UNCHANGED <<raw_entries, rejected_entries, locations, location_sources,
                         location_aliases>>]_vars

\* C19, its case: repair has reset the candidate parsed by the earlier
\* parser and has left a geocode_mismatch candidate as it was
C19_Witness ==
    /\ last.op = "repair_geocode_failed"
    /\ Len(candidates) >= 2
    /\ raw_entries[candidates[1].raw_entry_id] = LegacyRaw
    /\ candidates[1].street # LegacyCandidate.street
    /\ ResetToUnverified(candidates[1])
    /\ \E i \in 1..Len(candidates) : candidates[i].verification_status = "geocode_mismatch"

\* the candidates a geocode_pending run over every source has to look up
LookupDue ==
    {i \in 1..Len(candidates) :
        candidates[i].verification_status = "unverified" /\ HasStreet(candidates[i])}

\* geocode_pending over every source when every lookup fails
AllLookupsFail ==
    geocode_pending(DB, NULL, [i \in 1..Len(candidates) |-> NoHit])

\* a failed lookup is not retried within the run: when every lookup fails,
\* geocode_pending makes one lookup for each candidate it has to look up
\* and leaves each of them geocode_failed
NoRetryWithinRun ==
    /\ AllLookupsFail.stats.geocoded = Cardinality(LookupDue)
    /\ AllLookupsFail.stats.geocode_failed = Cardinality(LookupDue)
    /\ \A i \in LookupDue :
          AllLookupsFail.db.cand[i].verification_status = "geocode_failed"

\* the step is a run that looks candidate i up: geocode_pending asks
\* about the candidates of its query that have a street, run_source about
\* candidates it creates
LookedUpAgain(i) ==
    \/ last'.op = "geocode_pending" /\ i \in Asked(last'.args[1])
    \/ last'.op = "run_source" /\ i > Len(candidates)

\* C20 as stated: a failed lookup is not retried within the run, and a
\* candidate left geocode_failed is looked up again by the next run_source
\* or geocode_pending run
C20_FailedLookedUpNextRun ==
    [][last'.op \in {"run_source", "geocode_pending"} =>
          /\ NoRetryWithinRun
          /\ \A i \in 1..Len(candidates) :
                candidates[i].verification_status = "geocode_failed" /\ HasStreet(candidates[i])
                => LookedUpAgain(i)]_vars

\* C20, amended: a failed lookup is not retried within the run, and a
\* candidate left geocode_failed is not looked up again by a later
\* run_source or geocode_pending run, which leave it as it is; it stays
\* geocode_failed until repair resets it to unverified.
C20_FailedStaysFailed ==
    [][/\ last'.op \in {"run_source", "geocode_pending"} =>
             /\ NoRetryWithinRun
             /\ \A i \in 1..Len(candidates) :
                   candidates[i].verification_status = "geocode_failed" =>
                      /\ ~LookedUpAgain(i)
                      /\ candidates'[i] = candidates[i]
       /\ \A i \in 1..Len(candidates) :
             /\ candidates[i].verification_status = "geocode_failed"
             /\ candidates'[i].verification_status # "geocode_failed"
             => /\ last'.op = "repair_geocode_failed"
                /\ candidates'[i].verification_status = "unverified"]_vars

\* C20, its case: geocode_pending has run and has geocoded a candidate,
\* and another candidate, with a street, is still geocode_failed
C20_Witness ==
    /\ last.op = "geocode_pending"
    /\ \E i \in 1..Len(candidates) : \E j \in 1..Len(candidates) :
          /\ candidates[i].verification_status = "geocode_failed"
          /\ HasStreet(candidates[i])
          /\ candidates[j].verification_status \in {"geocode_match", "geocode_mismatch"}

\* ------------------------------------------------------------------------
\* Properties of geocoding, checked under SpecGeocode
\* ------------------------------------------------------------------------
\* the fraction f is at least 0.7
AtLeastSevenTenths(f) == 10 * f[1] >= 7 * f[2]

\* candidate after is candidate before once the lookup has returned answer
Recorded(before, after, answer) ==
    IF ~answer.found
    THEN /\ after.verification_status = "geocode_failed"
         /\ after.geo_lat = before.geo_lat
         /\ after.geo_lon = before.geo_lon
         /\ after.zip = before.zip
         /\ after.geo_confidence = before.geo_confidence
    ELSE /\ after.geo_lat = answer.lat
         /\ after.geo_lon = answer.lon
         /\ after.geo_matched_name = answer.display_name
         /\ after.zip = IF Truthy(answer.postcode) THEN answer.postcode ELSE before.zip
         /\ after.geo_confidence # NOSCORE
         /\ after.verification_status =
               IF AtLeastSevenTenths(after.geo_confidence)
               THEN "geocode_match" ELSE "geocode_mismatch"
         /\ answer = HitTie => 10 * after.geo_confidence[1] = 7 * after.geo_confidence[2]
         /\ answer = HitNear => 3 * after.geo_confidence[1] = 2 * after.geo_confidence[2]

\* the rejections of table rej that record a geocode mismatch of raw entry
\* raw_id
MismatchesOf(rej, raw_id) ==
    {k \in 1..Len(rej) :
        rej[k].raw_entry_id = raw_id /\ rej[k].rejection_reason = "geocode_mismatch"}

\* C21: the geocode outcome is recorded.  For every candidate
\* geocode_pending looks up, a place found is stored (coordinates, matched
\* name, confidence, and the postcode if there is one) with the status
\* geocode_match when the score is at least 0.7, the score 0.7 included,
\* and geocode_mismatch otherwise; a lookup that finds nothing sets
\* geocode_failed and leaves coordinates, zip and confidence as they were.
\* geocode_pending and run_source add one RejectedEntry, of reason
\* geocode_mismatch, for each candidate they leave geocode_mismatch, and
\* none for a match or a failure.
C21_GeocodeOutcome ==
    [][/\ last'.op = "geocode_pending" =>
             /\ Len(candidates') = Len(candidates)
             /\ \A i \in 1..Len(candidates) :
                   IF i \in LookupDue
                   THEN /\ Recorded(candidates[i], candidates'[i], last'.args[2][i])
                        /\ Cardinality(MismatchesOf(rejected_entries',
                                                    candidates[i].raw_entry_id))
                              = IF candidates'[i].verification_status = "geocode_mismatch"
                                THEN 1 ELSE 0
                   ELSE candidates'[i] = candidates[i]
             /\ Len(rejected_entries') - Len(rejected_entries) =
                   Cardinality({i \in LookupDue :
                                   candidates'[i].verification_status = "geocode_mismatch"})
       /\ last'.op = "run_source" =>
             /\ \A i \in (Len(candidates) + 1)..Len(candidates') :
                   /\ candidates'[i].verification_status = "geocode_match"
                         => AtLeastSevenTenths(candidates'[i].geo_confidence)
                   /\ candidates'[i].verification_status = "geocode_mismatch"
                         => ~AtLeastSevenTenths(candidates'[i].geo_confidence)
                   /\ candidates'[i].verification_status = "geocode_failed"
                         => candidates'[i].geo_confidence = NOSCORE
                   /\ Cardinality(MismatchesOf(rejected_entries',
                                               candidates'[i].raw_entry_id))
                         = IF candidates'[i].verification_status = "geocode_mismatch"
                           THEN 1 ELSE 0
             /\ \A k \in (Len(rejected_entries) + 1)..Len(rejected_entries') :
                   rejected_entries'[k].rejection_reason = "geocode_mismatch" =>
                      \E i \in (Len(candidates) + 1)..Len(candidates') :
                         /\ candidates'[i].raw_entry_id = rejected_entries'[k].raw_entry_id
                         /\ candidates'[i].verification_status = "geocode_mismatch"]_vars

\* C21, its case: geocode_pending has looked two candidates up; the one,
\* which had a zip, scored exactly 0.7 and is a match with that zip, the
\* other found nothing and kept the coordinates its source gave
C21_Witness ==
    /\ last.op = "geocode_pending"
    /\ Len(candidates) = 2
    /\ last.args[2][1] = HitTie
    /\ candidates[1].verification_status = "geocode_match"
    /\ 10 * candidates[1].geo_confidence[1] = 7 * candidates[1].geo_confidence[2]
    /\ candidates[1].zip = "60699"
    /\ last.args[2][2] = NoHit
    /\ candidates[2].verification_status = "geocode_failed"
    /\ candidates[2].geo_lat = "41.005"
    /\ rejected_entries = << >>

\* ------------------------------------------------------------------------
\* Properties of fingerprints, checked under Spec
\* ------------------------------------------------------------------------
\* the rows of the table that carry the fingerprint of the upstream row
StoredAs(row) ==
    {i \in 1..Len(raw_entries) :
        raw_entries[i].raw_fingerprint =
           FingerprintOf(SourceId(row[1]), row[2].name, row[2].address)}

\* what check_and_insert_raw answers for the upstream row: r = <<table,
\* id, is_new>>
InsertedOnce(row, r) ==
    IF StoredAs(row) # {}
    THEN /\ r[1] = raw_entries
         /\ r[2] \in StoredAs(row)
         /\ ~r[3]
    ELSE /\ Len(r[1]) = Len(raw_entries) + 1
         /\ SubSeq(r[1], 1, Len(raw_entries)) = raw_entries
         /\ r[2] = Len(raw_entries) + 1
         /\ r[3]
         /\ r[1][r[2]].parse_status = "pending"
         /\ r[1][r[2]].source_id = SourceId(row[1])
         /\ r[1][r[2]].raw_name = row[2].name
         /\ r[1][r[2]].raw_address = row[2].address
         /\ r[1][r[2]].raw_fingerprint =
               FingerprintOf(SourceId(row[1]), row[2].name, row[2].address)

\* C22: fingerprints are unique.  In every state no two raw entries share
\* a fingerprint, and for every upstream row check_and_insert_raw answers
\* (existing, false) and leaves the table as it is when the row's
\* fingerprint is stored, and otherwise appends exactly one row, pending,
\* and answers (new, true).
C22_FingerprintUnique ==
    /\ \A i \in 1..Len(raw_entries) : \A j \in 1..Len(raw_entries) :
          raw_entries[i].raw_fingerprint = raw_entries[j].raw_fingerprint => i = j
    /\ \A row \in RawDataRows :
          InsertedOnce(row, check_and_insert_raw(raw_entries, SourceId(row[1]),
                                                 row[2].name, row[2].address))

\* C22, its case: a run has ended, the table holds the rows of three
\* sources, and one upstream row is not stored yet
C22_Witness ==
    /\ last.op = "run_source"
    /\ Len(raw_entries) >= 4
    /\ \E row \in RawDataRows : StoredAs(row) # {}
    /\ \E row \in RawDataRows : StoredAs(row) = {}

\* ------------------------------------------------------------------------
\* Properties of the directory, checked under SpecDirectory
\* ------------------------------------------------------------------------
\* the row of the location is kept but for its status
OnlyStatusChanged(before, after) == after = [before EXCEPT !.rink_status = after.rink_status]

Retires == last'.op \in {"demote_location", "merge_locations"}

\* C23: location identifiers are stable.  No step of promotion, demote,
\* merge, rename, ice-time sync or push removes a row of locations or
\* changes the rink_id of one: the table only grows, each row keeps its
\* identifier, and a demote or a merge changes nothing of a location but
\* its status.
C23_IdentifiersStable ==
    [][/\ Len(locations') >= Len(locations)
       /\ \A i \in 1..Len(locations) :
             /\ locations'[i].rink_id = locations[i].rink_id
             /\ Retires => OnlyStatusChanged(locations[i], locations'[i])]_vars

\* two locations, one of them merged away, one renamed, have been pushed
C23_Witness ==
    /\ last.op = "push_locations"
    /\ Len(locations) = 2
    /\ Len(peer_locations) > 2
    /\ \E i \in 1..Len(locations) : locations[i].rink_status = "merged"
    /\ \E i \in 1..Len(location_aliases) : location_aliases[i].effective_until # NULLT

\* the aliases that record the location as a predecessor: they carry its
\* name on another location
PredecessorAliases(loc) ==
    {a \in 1..Len(location_aliases) :
       /\ location_aliases[a].alias_name = loc.rink_name
       /\ location_aliases[a].location_id # loc.rink_id}

\* C24: merged implies alias.  In every state reached by promotion, demote,
\* merge and rename, each location whose rink_status is 'merged' has an
\* alias row that carries its name on another location.
C24_MergedImpliesAlias ==
    \A i \in 1..Len(locations) :
       locations[i].rink_status = "merged" => PredecessorAliases(locations[i]) # {}

\* ------------------------------------------------------------------------
\* Properties of renaming, checked under SpecMerge
\* ------------------------------------------------------------------------
\* the alias that keeps the name the location loc had, at time t
FormerName(loc, new_name, t) ==
    [location_id |-> loc.rink_id, alias_name |-> loc.rink_name, effective_until |-> t,
     notes |-> "Renamed to " \o new_name]

\* the step renames the location at position loc to new_name
RenameKeepsName(loc, new_name) ==
    /\ locations'[loc].rink_name = new_name
    /\ locations[loc].rink_name # new_name =>
          location_aliases' = Append(location_aliases,
                                     FormerName(locations[loc], new_name, now))
    /\ locations[loc].rink_name = new_name => location_aliases' = location_aliases

RenameDone == last'.op = "rename_location" /\ last'.ok /\ Acts

\* C25: rename preserves history.  A rename to a name other than the
\* current one appends an alias with the old name on that location,
\* effective until now, and sets the new name; a rename to the current
\* name appends no alias.  No step removes or changes an alias, so every
\* name a location lost by a rename stays an alias of it.
C25_RenamePreservesHistory ==
    [][/\ RenameDone =>
             RenameKeepsName(_find_location(locations, last'.args[1], last'.args[2]),
                             last'.args[3])
       /\ Len(location_aliases') >= Len(location_aliases)
       /\ \A a \in 1..Len(location_aliases) : location_aliases'[a] = location_aliases[a]]_vars

\* a location was renamed at a time after the start, and the last call
\* renamed another location to the name it has
C25_Witness ==
    /\ last.op = "rename_location"
    /\ last.ok
    /\ \E a \in 1..Len(location_aliases) :
          /\ location_aliases[a].notes = "Renamed to Rink Xy"
          /\ location_aliases[a].effective_until > 0
          /\ location_aliases[a].location_id # last.args[2]

\* ------------------------------------------------------------------------
\* Properties of the operator's calls, checked under SpecManage
\* ------------------------------------------------------------------------
\* the locations of that name, letter case aside, and those whose name
\* contains it
NamedExactly(name) ==
    {i \in 1..Len(locations) : MapLower(locations[i].rink_name) = MapLower(name)}

NamedPartly(name) ==
    {i \in 1..Len(locations) : Contains(MapLower(locations[i].rink_name), MapLower(name))}

\* the target <<name, rink_id>> is not found or is ambiguous
NotResolved(name, rink_id) ==
    IF rink_id # NULL THEN \A i \in 1..Len(locations) : locations[i].rink_id # rink_id
    ELSE IF name # NULL THEN NamedExactly(name) = {} /\ Cardinality(NamedPartly(name)) # 1
    ELSE TRUE

NoLocation(rink_id) == \A i \in 1..Len(locations) : locations[i].rink_id # rink_id

\* the call the step makes is one the operation refuses
Refused ==
    \/ /\ last'.op = "demote_location"
       /\ \/ last'.args[3] \notin {"active", "closed_permanently", "seasonal", "merged",
                                   "disabled"}
          \/ NotResolved(last'.args[1], last'.args[2])
    \/ /\ last'.op = "rename_location"
       /\ \/ last'.args[3] = NULL
          \/ NotResolved(last'.args[1], last'.args[2])
    \/ /\ last'.op = "merge_locations"
       /\ \/ last'.args[1] = last'.args[2]
          \/ NoLocation(last'.args[1])
          \/ NoLocation(last'.args[2])

\* the step changes the status of one location to status and nothing else
OnlyStatusSet(status) ==
    /\ \E i \in 1..Len(locations) :
          locations' = [locations EXCEPT ![i].rink_status = status]
    /\ UNCHANGED <<candidates, location_sources, location_aliases, raw_entries,
                   rejected_entries>>

\* C26: curation errors leave the state unchanged.  A demote with a status
\* outside the allowed set, a demote or rename of a target that is not
\* found or is ambiguous, a rename without a new name, a merge of a
\* location into itself and a merge with a missing from- or into-location
\* return an error and change no location, candidate, source link or
\* alias; a demote that succeeds changes the status of its target only.
C26_ErrorsChangeNothing ==
    [][/\ Refused => ~last'.ok
       /\ ~last'.ok => UNCHANGED <<locations, candidates, location_sources,
                                   location_aliases>>
       /\ last'.op = "demote_location" /\ last'.ok => OnlyStatusSet(last'.args[3])]_vars

\* a rename by a name that two locations contain has been refused after a
\* demotion took effect
C26_Witness ==
    /\ last.op = "rename_location"
    /\ ~last.ok
    /\ last.args[1] = "Rink"
    /\ last.args[3] = "Rink Xy"
    /\ Cardinality(NamedPartly("Rink")) = 2
    /\ \E i \in 1..Len(locations) : locations[i].rink_status = "disabled"

\* ------------------------------------------------------------------------
\* Properties of the push, checked under SpecPush
\* ------------------------------------------------------------------------
\* the locations a push sends: the active ones with a zip
Sent == {i \in 1..Len(locations) :
           locations[i].rink_status = "active" /\ locations[i].rink_zip \notin {NULL, ""}}

\* the position in the peer's table of the row with the location's id, or 0
InPeer(i) ==
    IF \E p \in 1..Len(peer_locations) : peer_locations[p].rink_id = locations[i].rink_id
    THEN CHOOSE p \in 1..Len(peer_locations) :
            peer_locations[p].rink_id = locations[i].rink_id
    ELSE 0

\* the row has the address fields of the location
AddressOf(row, loc) ==
    /\ row.rink_address = (IF loc.rink_address \in {NULL, ""} THEN "" ELSE loc.rink_address)
    /\ row.rink_city = loc.rink_city
    /\ row.rink_state = loc.rink_state
    /\ row.rink_country = "US"
    /\ row.rink_zip = loc.rink_zip

\* no row of the peer is deleted, and a row it has keeps everything but its
\* address, city, state, country and zip
PeerRowsKept ==
    /\ Len(peer_locations') >= Len(peer_locations)
    /\ \A p \in 1..Len(peer_locations) :
          peer_locations'[p] =
             [peer_locations[p] EXCEPT !.rink_address = peer_locations'[p].rink_address,
                                       !.rink_city = peer_locations'[p].rink_city,
                                       !.rink_state = peer_locations'[p].rink_state,
                                       !.rink_country = peer_locations'[p].rink_country,
                                       !.rink_zip = peer_locations'[p].rink_zip]

\* each location sent has its row in the peer afterwards: the row that was
\* there with the location's address, or a new one with its name too
SentRowsWritten ==
    /\ \A i \in Sent :
          IF InPeer(i) # 0 THEN AddressOf(peer_locations'[InPeer(i)], locations[i])
          ELSE \E p \in (Len(peer_locations) + 1)..Len(peer_locations') :
                  /\ peer_locations'[p].rink_id = locations[i].rink_id
                  /\ peer_locations'[p].rink_name = locations[i].rink_name
                  /\ peer_locations'[p].data_source = locations[i].data_source
                  /\ AddressOf(peer_locations'[p], locations[i])
    /\ Len(peer_locations') = Len(peer_locations) + Cardinality({i \in Sent : InPeer(i) = 0})

\* the alias rows of the location's id and name
OwnNameAliases(al, loc) ==
    {a \in 1..Len(al) : al[a].location_id = loc.rink_id /\ al[a].alias_name = loc.rink_name}

\* the locations in differing have their name as an alias afterwards, and
\* the push adds no second alias of a location and name
AliasesRecorded(differing) ==
    /\ Len(location_aliases') >= Len(location_aliases)
    /\ SubSeq(location_aliases', 1, Len(location_aliases)) = location_aliases
    /\ \A i \in differing : OwnNameAliases(location_aliases', locations[i]) # {}
    /\ \A a \in (Len(location_aliases) + 1)..Len(location_aliases') :
          \A b \in 1..Len(location_aliases') :
             /\ location_aliases'[b].location_id = location_aliases'[a].location_id
             /\ location_aliases'[b].alias_name = location_aliases'[a].alias_name
             => b = a

\* the locations sent whose name is not the name the peer has for them
NamedOtherwise ==
    {i \in Sent : InPeer(i) # 0 /\ peer_locations[InPeer(i)].rink_name # locations[i].rink_name}

\* the locations sent whose name and the peer's are not empty and differ
\* in more than letter case and blanks around them
NamedDifferently ==
    {i \in NamedOtherwise :
       /\ peer_locations[InPeer(i)].rink_name # ""
       /\ locations[i].rink_name # ""
       /\ MapLower(Strip(peer_locations[InPeer(i)].rink_name))
             # MapLower(Strip(locations[i].rink_name))}

NothingWritten ==
    UNCHANGED <<peer_locations, raw_entries, candidates, rejected_entries, locations,
                location_sources, location_aliases>>

PushWrites == last'.op = "push_locations" /\ ~last'.args[1] /\ last'.args[2]

DryPush == last'.op = "push_locations" /\ last'.args[1]

RowsStored(source_name, rows) ==
    \A k \in 1..Len(rows) :
       \E i \in 1..Len(raw_entries') :
          raw_entries'[i].raw_fingerprint =
             FingerprintOf(SourceId(source_name), RawRow(source_name, rows[k]).name,
                           RawRow(source_name, rows[k]).address)

\* after the step no candidate waits for the geocoder
NoneLeftPending ==
    \A i \in 1..Len(candidates') :
       candidates'[i].verification_status = "unverified" => candidates'[i].street \in {NULL, ""}

\* after the step no verified candidate with a zip waits for promotion
NoneLeftUnpromoted ==
    \A i \in 1..Len(candidates') :
       /\ candidates'[i].verification_status \in {"geocode_match", "source_verified"}
       /\ candidates'[i].zip \notin {NULL, ""}
       => candidates'[i].location_id # NULL

\* C28: source isolation.  In a run over all enabled sources a failure of
\* one source does not reach beyond that source: the rows of every source
\* whose fetcher returned are stored, the pending candidates are geocoded
\* and the verified ones promoted, and the run returns.
C28_SourceIsolation ==
    [][last'.op = "_run_all" =>
          /\ \A k \in 1..Len(EnabledSources) :
                ~last'.args[1][EnabledSources[k]].raised =>
                   RowsStored(EnabledSources[k], last'.args[1][EnabledSources[k]].rows)
          /\ NoneLeftPending
          /\ NoneLeftUnpromoted
          /\ last'.ok]_vars

\* ------------------------------------------------------------------------
\* Properties of the rate limit, checked under SpecRate
\* ------------------------------------------------------------------------
\* the wait before a request: max(0, gap - elapsed)
WaitBefore(elapsed) ==
    IF NOMINATIM_RATE_LIMIT - elapsed > 0 THEN NOMINATIM_RATE_LIMIT - elapsed ELSE 0

\* the client does not go on before the wait is over: it sleeps until
\* WaitBefore(elapsed) after the time it went to sleep at, and does not
\* sleep if there is nothing to wait for
WaitsOut ==
    /\ rate_limiter.pc = "measured" /\ rate_limiter'.pc = "asleep" =>
          /\ WaitBefore(rate_limiter.elapsed) > 0
          /\ rate_limiter'.wake = rate_limiter.clock + WaitBefore(rate_limiter.elapsed)
    /\ rate_limiter.pc = "measured" /\ rate_limiter'.pc = "idle" =>
          WaitBefore(rate_limiter.elapsed) = 0
    /\ rate_limiter.pc = "asleep" /\ rate_limiter'.pc = "awake" =>
          rate_limiter.clock >= rate_limiter.wake

\* the time of the request is recorded when it is issued
IssueRecorded ==
    rate_limiter.pc # "idle" /\ rate_limiter'.pc = "idle" =>
       /\ rate_limiter'.last_request_time = rate_limiter.clock
       /\ rate_limiter'.issued[Len(rate_limiter'.issued)].at = rate_limiter.clock

\* C29: geocoder rate limit.  Any two consecutive requests of the process,
\* whichever operations they come from, are issued at least
\* NOMINATIM_RATE_LIMIT apart: before each request the client waits
\* max(0, gap - elapsed since the last request) and then records the time
\* of issue.
C29_RateLimit ==
    [][/\ WaitsOut
       /\ IssueRecorded
       /\ \A k \in 1..(Len(rate_limiter'.issued) - 1) :
             rate_limiter'.issued[k + 1].at - rate_limiter'.issued[k].at
                >= NOMINATIM_RATE_LIMIT]_vars

\* two requests of different operations went out exactly the gap apart,
\* the second after a sleep, and a third one later without any
C29_Witness ==
    /\ Len(rate_limiter.issued) = 3
    /\ rate_limiter.issued[1].origin # rate_limiter.issued[2].origin
    /\ rate_limiter.issued[2].at - rate_limiter.issued[1].at = NOMINATIM_RATE_LIMIT
    /\ rate_limiter.issued[3].at - rate_limiter.issued[2].at > NOMINATIM_RATE_LIMIT
    /\ rate_limiter.wake > rate_limiter.issued[1].at

\* ------------------------------------------------------------------------
\* Properties of the fingerprint function, checked under SpecFingerprint
\* ------------------------------------------------------------------------
\* the stored row and the triple differ in source, name or address
Differ(row, triple) ==
    \/ row.source_id # triple[1]
    \/ row.raw_name # triple[2]
    \/ row.raw_address # triple[3]

\* the name and the address as one text, letter case and the blanks at the
\* end of the address aside
NameAndAddress(raw_name, raw_address) == MapLower(raw_name \o "|" \o RStrip(raw_address))

\* the stored row and the triple differ in source, or in more than letter
\* case, blanks at the end of the address and the side of a '|' a part of
\* the name or address stands on
DifferInContent(row, triple) ==
    \/ row.source_id # triple[1]
    \/ NameAndAddress(row.raw_name, row.raw_address) # NameAndAddress(triple[2], triple[3])

Inserts == last'.op = "check_and_insert_raw"

\* the triple of the step is stored as a new row
OwnRawEntry ==
    /\ last'.ok
    /\ Len(raw_entries') = Len(raw_entries) + 1
    /\ ~Differ(raw_entries'[Len(raw_entries')], last'.args)

\* C30 as stated: two triples that differ in source_id, name or address
\* have different fingerprints, so a row that differs from every stored
\* one gets its own RawEntry.
C30_AnyDifferenceScopes ==
    [][Inserts =>
          /\ \A i \in 1..Len(raw_entries) :
                Differ(raw_entries[i], last'.args) =>
                   raw_entries[i].raw_fingerprint # last'.out
          /\ (\A i \in 1..Len(raw_entries) : Differ(raw_entries[i], last'.args))
                => OwnRawEntry]_vars

\* C30, amended: two triples that differ in source_id, or in name or
\* address by more than letter case, whitespace at the end of the address
\* and the place of a '|' between name and address, have different
\* fingerprints, so a row that so differs from every stored one gets its
\* own RawEntry.
C30_FingerprintScoping ==
    [][Inserts =>
          /\ \A i \in 1..Len(raw_entries) :
                DifferInContent(raw_entries[i], last'.args) =>
                   raw_entries[i].raw_fingerprint # last'.out
          /\ (\A i \in 1..Len(raw_entries) : DifferInContent(raw_entries[i], last'.args))
                => OwnRawEntry]_vars

\* the same name and address are stored for two sources
C30_Witness ==
    /\ last.op = "check_and_insert_raw"
    /\ last.ok
    /\ Len(raw_entries) = 2
    /\ raw_entries[1].source_id # raw_entries[2].source_id
    /\ raw_entries[1].raw_name = raw_entries[2].raw_name
    /\ raw_entries[1].raw_address = raw_entries[2].raw_address
    /\ raw_entries[1].raw_fingerprint # raw_entries[2].raw_fingerprint

\* ------------------------------------------------------------------------
\* Properties of the source links, checked under SpecLink
\* ------------------------------------------------------------------------
\* the row of (location_id, source_id) in the table ls, or NULL
LinkRow(ls, location_id, source_id) ==
    IF LinkIndex(ls, location_id, source_id) = 0 THEN NULL
    ELSE ls[LinkIndex(ls, location_id, source_id)]

\* the table ls after candidate first is recorded at time t1 and candidate
\* second at time t2, both for location_id
UpsertedInOrder(ls, location_id, first, second, t1, t2) ==
    LET db1 == [DB EXCEPT !.ls = ls]
        db2 == [db1 EXCEPT !.ls = _add_location_source(db1, location_id, first, t1)]
    IN _add_location_source(db2, location_id, second, t2)

\* the step records a candidate for the location and the source for which
\* the step before recorded another candidate
SecondUpsert ==
    /\ Acts
    /\ last'.op = "_add_location_source"
    /\ last.op = "_add_location_source"
    /\ last'.args[1] = last.args[1]
    /\ last'.args[2] # last.args[2]
    /\ SourceOf(last'.args[2]) = SourceOf(last.args[2])

\* C31: applying the upserts of two candidates of the same source for the
\* same location in either order yields the same LocationSource row: once
\* two such candidates are recorded one after the other, the row of the
\* pair is the row that recording them the other way round, at the same two
\* times, leaves.
C31_UpsertsCommute ==
    [][SecondUpsert =>
         LinkRow(location_sources', last'.args[1], SourceOf(last'.args[2]))
         = LinkRow(UpsertedInOrder(last.out, last.args[1], last'.args[2], last.args[2],
                                   last.args[3], last'.args[3]),
                   last'.args[1], SourceOf(last'.args[2]))]_vars

\* ------------------------------------------------------------------------
\* Properties of the commits of promotion, checked under SpecBatch
\* ------------------------------------------------------------------------
\* the loop commits at the end of every BATCH_SIZE-th iteration
CommitsEveryBatch(log) ==
    \A i \in 1..Len(log) : i % BATCH_SIZE = 0 => CommitsAt(log, i)

\* at the end of an iteration, before its commit, the session holds the
\* changes of at most BATCH_SIZE candidates
BoundedUncommitted(log) ==
    \A i \in 1..Len(log) :
       Cardinality(Uncommitted(log, i - 1) \cup {j \in {i} : log[j].changed}) <= BATCH_SIZE

\* the loops of the promotion that the step runs or cancels
LogsOfStep == PromotionLogs(DB, last'.args[1], now)

\* C32: in each of the three promotion phases a commit happens after every
\* BATCH_SIZE candidates iterated, so at no point do more than BATCH_SIZE
\* candidates' changes sit uncommitted and a cancelled promotion loses the
\* changes of at most BATCH_SIZE candidates.
C32_BatchedCommits ==
    [][last'.op = "run_promotion" =>
         /\ \A phase \in 1..3 :
               /\ CommitsEveryBatch(LogsOfStep[phase].log)
               /\ BoundedUncommitted(LogsOfStep[phase].log)
         /\ ~last'.ok => Cardinality(last'.out) <= BATCH_SIZE]_vars

\* ------------------------------------------------------------------------
\* Properties of the dedup check within a run, checked under SpecRelisted
\* ------------------------------------------------------------------------
\* the candidates the step has inserted
InsertedByStep == (Len(candidates) + 1)..Len(candidates')

\* candidate i of table cand repeats the name of candidate o in its town:
\* the names are as similar as layer 2 asks of the two
RepeatsName(cand, i, o) ==
    SimilarInTown(cand[i], cand[o],
                  IF Streetless(cand[i]) \/ Streetless(cand[o])
                  THEN FUZZY_NAME_THRESHOLD_NO_STREET ELSE FUZZY_NAME_THRESHOLD)

\* candidate i of table cand is recorded in rej as matching an earlier
\* candidate
MatchedEarlier(cand, rej, i) ==
    /\ cand[i].verification_status = "duplicate"
    /\ \E k \in RejectionsOf(rej, cand[i].raw_entry_id) :
          \E exact \in BOOLEAN : RecordsDuplicate(rej[k], cand, i, exact)

\* candidate o is in the pool that find_duplicate reads for the address of
\* a later candidate
InAddressPool(cand, o) == cand[o].verification_status \in VerifiedPool

\* candidate o is in the pool that find_duplicate reads for the name of
\* the later candidate i
InNamePool(cand, i, o) ==
    \/ cand[o].verification_status \in VerifiedPool
    \/ Streetless(cand[i]) /\ cand[o].verification_status = "unverified"

\* C33 as stated: within one run_source every candidate inserted for an
\* earlier raw takes part in the dedup check of every later raw of the
\* run, so a later raw that repeats an earlier raw's address or name in
\* the same locality is matched against an earlier candidate.
C33_EveryRepeatMatched ==
    [][last'.op = "run_source" =>
         \A i \in InsertedByStep : \A o \in InsertedByStep :
            (o < i /\ (\/ SharesAddress(candidates'[i], candidates'[o])
                       \/ RepeatsName(candidates', i, o)))
               => MatchedEarlier(candidates', rejected_entries', i)]_vars

\* C33: within one run_source every candidate inserted for an earlier raw
\* is in the table that the dedup check of every later raw of the run
\* reads, with the status it has by then: a later raw that repeats the
\* address of an earlier raw whose candidate is verified, or the name in
\* the same locality of an earlier raw whose candidate is in the pool of
\* layer 2, is matched against an earlier candidate.
C33_InRunVisibility ==
    [][last'.op = "run_source" =>
         \A i \in InsertedByStep : \A o \in InsertedByStep :
            (o < i /\ (\/ /\ SharesAddress(candidates'[i], candidates'[o])
                          /\ InAddressPool(candidates', o)
                       \/ /\ RepeatsName(candidates', i, o)
                          /\ InNamePool(candidates', i, o)))
               => MatchedEarlier(candidates', rejected_entries', i)]_vars

\* C33, its case: a run has inserted two candidates for one address, the
\* first was verified during the run, and the second is recorded as
\* matching the first
C33_Witness ==
    /\ last.op = "run_source"
    /\ \E i \in 1..Len(candidates) :
          /\ i > 1
          /\ raw_entries[candidates[i].raw_entry_id].source_id
                = raw_entries[candidates[i - 1].raw_entry_id].source_id
          /\ SharesAddress(candidates[i], candidates[i - 1])
          /\ candidates[i - 1].verification_status = "geocode_match"
          /\ candidates[i].verification_status = "duplicate"
          /\ \E k \in RejectionsOf(rejected_entries, candidates[i].raw_entry_id) :
                rejected_entries[k].raw_parse_error
                   = "Matches candidate " \o ToString(i - 1) \o ": " \o candidates[i - 1].name

\* ------------------------------------------------------------------------
\* Properties of the parse outcome, checked under Spec
\* ------------------------------------------------------------------------
\* the candidates of raw entry r
CandidatesOf(r) == {i \in 1..Len(candidates) : candidates[i].raw_entry_id = r}

\* the rejections of raw entry r for a failed parse
ParseFailuresOf(r) ==
    {k \in RejectionsOf(rejected_entries, r) :
        rejected_entries[k].rejection_reason = "parse_failure"}

\* C34: the parse outcome.  In every reachable state each RawEntry has at
\* most one Candidate; a RawEntry with parse_status failed has a
\* RejectedEntry with reason parse_failure and no Candidate; one with
\* parse_status parsed has exactly one Candidate; one with parse_status
\* pending has neither.
C34_ParseOutcome ==
    \A r \in 1..Len(raw_entries) :
       /\ Cardinality(CandidatesOf(r)) <= 1
       /\ raw_entries[r].parse_status = "failed" =>
             ParseFailuresOf(r) # {} /\ CandidatesOf(r) = {}
       /\ raw_entries[r].parse_status = "parsed" => Cardinality(CandidatesOf(r)) = 1
       /\ raw_entries[r].parse_status = "pending" =>
             ParseFailuresOf(r) = {} /\ CandidatesOf(r) = {}

\* C34, its case: a run has ended and the store holds a raw entry whose
\* parse failed beside one that was parsed
C34_Witness ==
    /\ last.op = "run_source"
    /\ \E r \in 1..Len(raw_entries) : raw_entries[r].parse_status = "failed"
    /\ \E r \in 1..Len(raw_entries) : raw_entries[r].parse_status = "parsed"

\* ------------------------------------------------------------------------
\* Properties of the verification by the source, checked under
\* SpecSupplied
\* ------------------------------------------------------------------------
\* the source supplied both coordinates and a non-empty zip with the row
SuppliedAll(row) == row.lat # NULL /\ row.lng # NULL /\ Truthy(row.zip)

\* the geocoder has not written to candidate c, which carries what the
\* row supplied
NotGeocoded(c, row) ==
    /\ c.geo_confidence = NOSCORE
    /\ c.geo_matched_name = NULL
    /\ c.geo_lat = row.lat /\ c.geo_lon = row.lng /\ c.zip = row.zip

\* candidate c carries an outcome of geocode_candidate
Looked(c) == c.verification_status \in {"geocode_match", "geocode_mismatch", "geocode_failed"}

\* the step is a run of the source that inserted a candidate for the row
\* it fetched and found no duplicate of it
NewUnmatched ==
    /\ last'.op = "run_source"
    /\ Len(candidates') = Len(candidates) + 1
    /\ candidates'[Len(candidates')].verification_status # "duplicate"

\* C35: the source verification rule.  A new candidate with no dedup match
\* is marked source_verified exactly when the source supplied both
\* coordinates and a non-empty zip, and it is then not sent to the
\* geocoder; otherwise it is geocoded when geocoding is enabled, and left
\* unverified when it is not.  Hence every source_verified candidate has
\* coordinates and a non-empty zip, and Phase 1 links each of them to a
\* location.
C35_SourceVerification ==
    [][/\ NewUnmatched =>
             LET c == candidates'[Len(candidates')]
                 row == last'.args[2][1]
             IN /\ c.verification_status = "source_verified" <=> SuppliedAll(row)
                /\ SuppliedAll(row) => NotGeocoded(c, row)
                /\ (~SuppliedAll(row) /\ last'.args[4]) => Looked(c)
                /\ (~SuppliedAll(row) /\ ~last'.args[4]) =>
                      c.verification_status = "unverified"
       /\ \A i \in 1..Len(candidates') :
             candidates'[i].verification_status = "source_verified" =>
                /\ candidates'[i].geo_lat # NULL
                /\ candidates'[i].geo_lon # NULL
                /\ Truthy(candidates'[i].zip)
                /\ last'.op = "promote_verified" => candidates'[i].location_id # NULL]_vars

\* C35, its case: the source has supplied everything for one rink, which
\* was marked source_verified and promoted, and the coordinates without a
\* zip for another, which was sent to the geocoder
C35_Witness ==
    /\ last.op = "promote_verified"
    /\ \E i \in 1..Len(candidates) :
          /\ candidates[i].verification_status = "source_verified"
          /\ candidates[i].geo_confidence = NOSCORE
          /\ candidates[i].location_id # NULL
    /\ \E i \in 1..Len(candidates) :
          /\ raw_entries[candidates[i].raw_entry_id].source_id = SourceId("learntoskate")
          /\ Looked(candidates[i])

\* ------------------------------------------------------------------------
\* Properties of the pools of the deduplicator, checked under SpecPool
\* ------------------------------------------------------------------------
\* the statuses no layer reads
NeverMatched == {"duplicate", "geocode_mismatch", "geocode_failed"}

\* C36: dedup pool membership.  find_duplicate never returns the candidate
\* itself nor a candidate whose status is duplicate, geocode_mismatch or
\* geocode_failed; layers 1 and 3 return only candidates of the verified
\* pool, and an unverified candidate is returned only by layer 2.
C36_PoolMembership ==
    (last.op = "find_duplicate" /\ last.out[1] # 0) =>
       /\ last.out[1] # last.args[1]
       /\ candidates[last.out[1]].verification_status \notin NeverMatched
       /\ last.out[2] \in {"address_exact", "geo_proximity"} =>
             candidates[last.out[1]].verification_status \in VerifiedPool
       /\ candidates[last.out[1]].verification_status = "unverified" =>
             last.out[2] = "fuzzy_name"

\* C36, its case: find_duplicate has passed over a candidate of the same
\* name whose lookup failed and has returned an unverified one by layer 2
C36_Witness ==
    /\ last.op = "find_duplicate"
    /\ last.out[1] = 2
    /\ last.out[2] = "fuzzy_name"
    /\ candidates[2].verification_status = "unverified"
    /\ candidates[1].verification_status = "geocode_failed"
    /\ candidates[1].name = candidates[last.args[1]].name

\* ------------------------------------------------------------------------
\* Properties of the pending raw entries, checked under Spec
\* ------------------------------------------------------------------------
\* the step is a full run of a source that went to its end: not
\* scrape-only and with no limit
FullRun ==
    /\ last'.op = "run_source"
    /\ ~last'.args[3]
    /\ last'.args[5] = 0

\* C37: no raw entry is stranded.  Every RawEntry that is pending when a
\* full run of its source begins has been parsed when the run ends: its
\* parse_status is parsed or failed.
C37_NoRawStranded ==
    [][FullRun =>
         \A r \in 1..Len(raw_entries) :
            (/\ raw_entries[r].source_id = SourceId(last'.args[1])
             /\ raw_entries[r].parse_status = "pending")
               => raw_entries'[r].parse_status \in {"parsed", "failed"}]_vars

\* ------------------------------------------------------------------------
\* Properties of the locations that promotion creates, checked under
\* SpecRelisted
\* ------------------------------------------------------------------------
\* the location loc stands at the address of the row with the fields
\* street, city and state
AtAddress(loc, street, city, state) ==
    /\ _normalize(street) # ""
    /\ _normalize(loc.rink_address) = _normalize(street)
    /\ _normalize(loc.rink_city) = _normalize(city)
    /\ _normalize(loc.rink_state) = _normalize(state)

\* no two locations of the table stand at one address
DistinctAddresses(loctab) ==
    \A a \in 1..Len(loctab) : \A b \in 1..Len(loctab) :
       (a # b) => ~AtAddress(loctab[a], loctab[b].rink_address, loctab[b].rink_city,
                             loctab[b].rink_state)

\* the candidates the step has given a location
LinkedByStep ==
    {i \in 1..Len(candidates) :
        candidates[i].location_id = NULL /\ candidates'[i].location_id # NULL}

\* C38: no duplicate locations from promotion.  Over the promotion runs,
\* with no curation, no two Locations have the same non-empty normalized
\* street with the same normalized city and state; a verified candidate
\* that Phase 1 links, at an address that a Location has when the run
\* ends, is linked to that Location, also when the Location was created in
\* the same run.
C38_NoDuplicateLocations ==
    [][/\ DistinctAddresses(locations')
       /\ last'.op \in {"promote_verified", "run_promotion"} =>
             \A i \in LinkedByStep :
                (/\ candidates[i].verification_status \in {"geocode_match", "source_verified"}
                 /\ \E k \in 1..Len(locations') :
                       AtAddress(locations'[k], candidates[i].street, candidates[i].city,
                                 candidates[i].state))
                   => \E k \in 1..Len(locations') :
                         /\ locations'[k].rink_id = candidates'[i].location_id
                         /\ AtAddress(locations'[k], candidates[i].street,
                                      candidates[i].city, candidates[i].state)]_vars

\* C38, its case: two verified candidates of one address and different
\* names were promoted by one run of Phase 1, which created one Location
\* for both
C38_Witness ==
    /\ last.op = "promote_verified"
    /\ \E i \in 1..Len(candidates) : \E j \in 1..Len(candidates) :
          /\ i < j
          /\ candidates[i].verification_status = "geocode_match"
          /\ candidates[j].verification_status = "geocode_match"
          /\ SharesAddress(candidates[i], candidates[j])
          /\ candidates[i].name # candidates[j].name
          /\ candidates[i].location_id # NULL
          /\ candidates[j].location_id = candidates[i].location_id
          /\ Cardinality({k \in 1..Len(locations) :
                            AtAddress(locations[k], candidates[i].street, candidates[i].city,
                                      candidates[i].state)}) = 1
          /\ Len(location_sources) = 1

\* ------------------------------------------------------------------------
\* Properties of a second run of the promotion, checked under SpecRelisted
\* ------------------------------------------------------------------------
\* the step is a completed run_promotion that follows a completed
\* run_promotion with the same peer list and nothing in between
SecondRun ==
    /\ last.op = "run_promotion" /\ last.ok
    /\ last'.op = "run_promotion" /\ last'.ok
    /\ last'.args = last.args

\* the primary candidate that the rejection of duplicate i names (0: none)
NamedPrimary(i) ==
    LET named == {k \in RejectionsOf(rejected_entries, candidates[i].raw_entry_id) :
                    /\ rejected_entries[k].rejection_reason
                          \in {"duplicate_address_exact", "suspected_duplicate"}
                    /\ Truthy(rejected_entries[k].raw_parse_error)}
    IN IF named = {} THEN 0
       ELSE MatchesCandidateOf(rejected_entries[CHOOSE k \in named : \A o \in named : k <= o].raw_parse_error)

\* candidate i is one that link_wiki_entries visits
StreetlessUnverified(i) ==
    /\ candidates[i].verification_status = "unverified"
    /\ (candidates[i].street = NULL \/ Strip(candidates[i].street) = "")

\* C39 as stated: a second run_promotion right after a completed one, with
\* the same peer list, links no further candidate and creates no Location
C39_WholeRunFixpoint ==
    [][SecondRun =>
          /\ locations' = locations
          /\ LinkedByStep = {}]_vars

\* C39, amended: a second run_promotion right after a completed one, with
\* the same peer list, creates no Location, and the candidates it links are
\* duplicates whose primary is a street-less unverified candidate, which
\* Phase 3 of the first run linked after Phase 2 had passed over them
C39_SecondRunLinksWikiDuplicates ==
    [][SecondRun =>
          /\ locations' = locations
          /\ \A i \in LinkedByStep :
                /\ candidates[i].verification_status = "duplicate"
                /\ NamedPrimary(i) \in 1..Len(candidates)
                /\ StreetlessUnverified(NamedPrimary(i))
                /\ candidates[NamedPrimary(i)].location_id # NULL
                /\ candidates'[i].location_id = candidates[NamedPrimary(i)].location_id]_vars

\* C39, its case: the second of two runs of the promotion has linked the
\* wiki's second listing of a rink to the Location of the first listing,
\* which the first run had linked to it
C39_Witness ==
    /\ last.op = "run_promotion" /\ last.ok
    /\ \E i \in 1..Len(candidates) :
          /\ candidates[i].verification_status = "duplicate"
          /\ candidates[i].location_id # NULL
          /\ NamedPrimary(i) \in 1..Len(candidates)
          /\ StreetlessUnverified(NamedPrimary(i))
          /\ candidates[NamedPrimary(i)].location_id = candidates[i].location_id

\* ------------------------------------------------------------------------
\* Properties of the pagination of arena-guide, checked under SpecPaging
\* ------------------------------------------------------------------------
\* the last n pages all ended with outcome
EndsWithStreak(pages, outcome, n) ==
    /\ Len(pages) >= n
    /\ \A k \in (Len(pages) - n + 1)..Len(pages) : pages[k] = outcome

\* C40: the pagination stop rule.  Pagination has terminated exactly when
\* the pages end with a streak of 5 consecutive failed requests or of 3
\* consecutive empty pages: a non-empty page resets the streaks, and fewer
\* failed or empty pages in a row do not stop it.
C40_StopRule ==
    (pager.pc = "done")
       <=> \/ EndsWithStreak(pager.pages, "failed", 5)
           \/ EndsWithStreak(pager.pages, "empty", 3)

====
